---- MODULE Spec2Model ----
(***************************************************************************)
(* Frame dispatch and worker coordination of the central server            *)
(* (mentatSampo/serverMain.py, CentralWebSocketServer) and of the expert   *)
(* workers' base class (mentatSampo/experts/baseWorker.py, BaseWorker),    *)
(* the stream server's camera tables (server/server.py, StreamManager) and *)
(* the sending loop of the camera client (mentatClient/clientMain.py,      *)
(* MultiCameraClient). The three programs share no state; each             *)
(* specification below moves the variables of one of them.                 *)
(*                                                                         *)
(* The asyncio event loop runs one coroutine at a time up to its next      *)
(* suspension point; the Flask dashboard runs in a thread of its own, so   *)
(* toggle_model may run between any two steps of the event loop.           *)
(*                                                                         *)
(* Spec       startup, connections, both routings, the workers, the toggle *)
(* FairSpec   the event loop's steps of Spec under weak fairness           *)
(* ClientSpec handle_client's message loop over every kind of message      *)
(* HandlerSpec handle_client on two connections                            *)
(* DashSpec   the SocketIO side of the dashboard and the stored results    *)
(* PairSpec   two clients on two websockets, every worker started          *)
(* CommandSpec frames, ping and stats of one client, workers and the toggle *)
(* DeliverySpec two clients, workers whose result sends take time          *)
(* StreamSpec the stream server (server/server.py): StreamManager          *)
(* ThreadsSpec the stream server with get_camera_status on its own thread  *)
(* CameraClientSpec the camera client (mentatClient/clientMain.py)         *)
(* ResponseSpec the camera client with the responses it reads              *)
(* ReadSpec   the camera client with reads that fail                       *)
(***************************************************************************)
EXTENDS Integers, Sequences, FiniteSets, TLC

\* ------------------------------------------------------------------ bounds
\* Stand-in for deque(maxlen=30): the arrival times kept per camera.
MaxStamps == 2
\* The last second of a run of the stream server, and the number of frames
\* stored per camera id in a run.
MaxTime == 6
MaxFrames == 2
\* The last moment of a run of the camera client, in units of 0.2 s.
MaxClientTime == 32
\* Stand-in for asyncio.Queue(maxsize=100): the capacity of a job queue.
MaxQueue == 2
\* Number of frame messages (dispatches) the clients send in a run.
MaxDispatch == 3
\* Number of messages per connection that handle_client answers itself in a run.
MaxMessages == 2
\* Number of frame messages in a run that also has commands and toggles (CommandSpec).
MaxCommandFrames == 2

\* ------------------------------------------------------------------ values
\* The keys of AI_MODELS, in the order initialize_workers registers them.
ExpertOrder == <<"yolo", "blip">>
Experts == {ExpertOrder[i] : i \in 1..Len(ExpertOrder)}
\* The websocket connections that are opened in a run.
Conns == {"ws1"}
\* The websockets of a run with two clients (PairSpec).
AllConns == {"ws1", "ws2"}
\* The camera_id a client puts in its JSON frame requests: each client its own.
CameraOf(c) == IF c = "ws1" THEN "0" ELSE "1"
\* str(camera_id): the binary protocol always uses 0, a JSON request names its own.
LegacyCamera == "0"
Cameras == {"0"}
\* The cameras the dashboard side keeps data for, and the SocketIO clients.
DashCameras == {"0", "1"}
Sids == {"s1", "s2"}
\* The values of data.get('camera_id') in a (un)subscribe event; "" stands for
\* the values Python takes as false (no entry, "", 0).
SubIds == {"0", "1", ""}
\* BaseWorker.process_frame is abstract: for a job it returns a payload or
\* raises. The payload it returns for the job that dispatch d gave worker w.
process_frame(d, w) == [frame |-> d, by |-> w]
NoJob == 0
NoRoute == [d |-> 0, todo |-> <<>>, phase |-> "none"]
EmptyMap == [x \in {} |-> TRUE]
\* No thread is inside get_camera_status.
NoScan == [pc |-> "idle", status |-> EmptyMap]

\* The stream server: the camera ids its clients name and their SocketIO sids.
StreamCameras == {"CAMERA_0", "CAMERA_1"}
StreamSids == {"a", "b"}
\* get_camera_status: `current_time - last_update > 5`.
InactivityTimeout == 5

\* The camera client: get_enabled_cameras() without a config.env, in the
\* order of self.cameras, and the experts it sends frames to.
ClientCameraOrder == <<"webcam_0", "webcam_1">>
ClientCameras == {ClientCameraOrder[i] : i \in 1..Len(ClientCameraOrder)}
ClientExperts == {"YOLO", "BLIP"}
\* The client's times are counted in units of 0.2 s: yolo_interval = 0.2 and
\* blip_interval = 3.0, and the timeouts of asyncio.wait_for, 2.0 and 5.0.
yolo_interval == 1
blip_interval == 15
yolo_timeout == 10
blip_timeout == 25
\* time.time() when run_async starts: later than any interval after 0.
StartTime == 15
\* The failed reads in a row a camera is allowed: `failures > 10` disables it.
MaxFailures == 10
\* last_sent before the first send.
Never == -1

VARIABLES
    AI_MODELS,        \* AI_MODELS[m]['enabled']
    workers,          \* the keys of self.workers
    conn,             \* each websocket: "new", "open" (handler running), "closed"
    connected_clients, \* self.connected_clients
    job_queue,        \* BaseWorker.job_queue of each worker: a sequence of dispatch ids
    cur,              \* the job a worker's process_loop has dequeued and is processing
    alive,            \* whether the worker's process_loop task is still running
    frame_count,      \* BaseWorker.frame_count
    srv_frame_count,  \* CentralWebSocketServer.frame_count
    disp,             \* one record per frame message: the closure state of its callbacks
    rt,               \* the position of route_frame_to_workers, when it is running
    camera_data,      \* self.camera_data: per camera, the experts with a stored result
    latest_results,   \* self.latest_results: per camera, the experts with a stored result
    startup,          \* initialize_workers: per expert "pending", or how its try block ended
    wire,             \* per websocket: the messages handle_client answered itself, each
                      \* with the reply written for it
    sio,              \* the SocketIO clients (sids) connected to the dashboard
    rooms,            \* Flask-SocketIO rooms: the pairs <<sid, room>> of join_room
    delivered,        \* history: <<sid, camera>> for every camera_stats_update a client got
    delivering,       \* per worker: its loop is inside `await job["callback"](...)`,
                      \* suspended in the callback's websocket.send
    \* server/server.py, the stream server: the fields of StreamManager
    camera_frames,    \* camera_frames: per camera id the frame stored last
    camera_locks,     \* the keys of camera_locks
    camera_status,    \* camera_status: per camera id last_update, status, fps, client_id
    camera_fps,       \* camera_fps: per camera id the rate computed last, in tenths
    frame_timestamps, \* frame_timestamps: per camera id the deque of arrival times
    client_cameras,   \* client_cameras: per camera id the sid that sent its last frame
    stream_sids,      \* the SocketIO clients connected to the stream server
    now,              \* time.time(), in seconds
    frames_stored,    \* history: per camera id the senders of the frames update_frame stored
    scan,             \* the call of get_camera_status that a thread is in: its locals
                      \* and the statement it is at
    \* mentatClient/clientMain.py, the camera client: MultiCameraClient
    client_now,       \* time.time() at the client, in units of 0.2 s
    current_time,     \* run_async: current_time, read at the top of the while loop
    last_yolo_time,   \* last_yolo_time, per camera
    last_blip_time,   \* last_blip_time, per camera
    client_connected, \* self.connected, per camera
    client_pc,        \* where run_async stands: the camera and the statement it is at
    last_sent,        \* history: per camera and expert, when websocket.send was last called
    failures,         \* camera_status[camera]["failures"]
    working,          \* camera_status[camera]["working"]
    unread,           \* per camera: the requests sent whose response recv() has not returned
    consumed          \* history: per camera, the request whose response was read last
                      \* and the request that response answers

vars == <<AI_MODELS, workers, conn, job_queue, cur, alive, frame_count,
          srv_frame_count, disp, rt, camera_data, latest_results,
          startup, wire, sio, rooms, delivered, delivering, connected_clients,
          camera_frames, camera_locks, camera_status, camera_fps,
          frame_timestamps, client_cameras, stream_sids, now, frames_stored, scan,
          client_now, current_time, last_yolo_time, last_blip_time,
          client_connected, client_pc, last_sent,
          failures, working, unread, consumed>>

\* The camera client's state of its cap.read() calls, and of its responses.
reads == <<failures, working>>
replies == <<unread, consumed>>

\* The state of the camera client.
client == <<client_now, current_time, last_yolo_time, last_blip_time,
            client_connected, client_pc, last_sent, reads, replies>>

\* The state of the stream server.
stream == <<camera_frames, camera_locks, camera_status, camera_fps,
            frame_timestamps, client_cameras, stream_sids, now, frames_stored, scan>>

\* The state of the dashboard's SocketIO side.
dash == <<sio, rooms, delivered>>

\* ------------------------------------------------------- BaseWorker helpers
\* asyncio.Queue.full() as put_nowait tests it.
QueueFull(q) == Len(q) >= MaxQueue

\* A put that evicts the oldest queued job to make room for the new one.
put_nowait_evicting(q, job) == IF QueueFull(q) THEN Append(Tail(q), job) ELSE Append(q, job)
\* A put that places the new job ahead of the waiting ones.
put_nowait_front(q, job) == IF QueueFull(q) THEN q ELSE <<job>> \o q
\* A put that never refuses.
put_nowait_unbounded(q, job) == Append(q, job)
\* job_queue.put_nowait(job): the queue afterwards (unchanged when QueueFull is raised).
put_nowait(q, job) == IF QueueFull(q) THEN q ELSE Append(q, job)

\* A get that hands out the oldest job and leaves it in the queue.
get_peek(q) == <<Head(q), q>>
\* job_queue.get() on a queue that holds a job: the job it returns, the oldest,
\* and the queue afterwards.
get(q) == <<Head(q), Tail(q)>>

\* add_job's return value: True when put_nowait succeeded, False on QueueFull.
add_job_returns(q) == ~QueueFull(q)

\* A loop that dies when a callback raises.
LoopDiesOnCallbackError(kind) == kind # "cbraise"
\* process_loop's `except Exception`: whether the while-loop goes on after a
\* job failed with `kind` ("raise": process_frame raised, "cbraise": the callback raised).
LoopSurvives(kind) == TRUE

\* ------------------------------------------------- aggregation helpers
\* A callback that forgets every outstanding expert at the first result.
discard_all(pending, w) == {}
\* pending_workers.discard(worker_name)
discard(pending, w) == pending \ {w}

\* A test that sends on every result.
AlwaysComplete(pending) == TRUE
\* `if not pending_workers`
AllResponded(pending) == pending = {}

\* update_camera_data's guard: a result is stored only while its model is enabled.
ModelEnabled(w) == AI_MODELS[w]

\* The workers in the order self.workers.items() yields them.
WorkerOrder == SelectSeq(ExpertOrder, LAMBDA w : w \in workers)

Range(s) == {s[i] : i \in 1..Len(s)}

\* The state one frame message creates: the locals of route_frame_to_workers
\* (enabled_workers, pending_workers, results) that its callback closes over,
\* or the expert of route_frame_to_expert; ret, outcome and sent record what
\* add_job returned, how each job ended ("ok": the callback ran, "raise":
\* process_frame raised, "cbraise": the callback raised) and what was written
\* to the websocket.
NewDispatch(mode, c, cam) ==
    [mode |-> mode, conn |-> c, cam |-> cam, enabled_workers |-> <<>>,
     pending |-> {}, results |-> EmptyMap, ret |-> EmptyMap,
     outcome |-> EmptyMap, sent |-> <<>>, taken |-> EmptyMap, calls |-> EmptyMap,
     done |-> EmptyMap]

\* History kept per dispatch and worker: how often the worker's loop dequeued
\* the job (taken), how often it invoked the job's callback (calls) and how
\* often it called task_done for the job (done).
Count(f, w) == IF w \in DOMAIN f THEN f[w] ELSE 0
Bump(f, w) == (w :> Count(f, w) + 1) @@ f

\* A loop that calls task_done in the try block and once more on the way out.
task_done_twice(f, w) == Bump(Bump(f, w), w)
\* self.job_queue.task_done(), called by worker w for a job: the job's count
\* of task_done calls afterwards.
task_done(f, w) == Bump(f, w)

\* A callback that writes to the websocket that connected first.
first_websocket(D) == "ws1"
\* The `websocket` a dispatch's callback closes over: the parameter of the
\* routing call that created it, the connection the frame arrived on.
websocket(D) == D.conn

\* websocket.send(...) in a routing function or a callback of dispatch D: the
\* messages written for the dispatch, each with the connection it went to.
Sent(D, msg) ==
    IF conn[websocket(D)] = "open"
    THEN Append(D.sent, [type |-> msg.type, results |-> msg.results, to |-> websocket(D)])
    ELSE D.sent

\* A router that answers nothing when no expert is enabled.
send_nothing(D) == D.sent
\* `if not enabled_workers`: the reply {"camera_id", "results": {}, "timestamp"}
\* is written at once; the messages of the dispatch afterwards.
send_empty(D) == Sent(D, [type |-> "empty", results |-> EmptyMap])

\* The state after CentralWebSocketServer() is constructed: no worker is
\* registered yet, run_server has still to call initialize_workers.
Init ==
    /\ AI_MODELS = [m \in Experts |-> TRUE]
    /\ workers = {}
    /\ conn = [c \in AllConns |-> "new"]
    /\ connected_clients = {}
    /\ job_queue = [w \in Experts |-> <<>>]
    /\ cur = [w \in Experts |-> NoJob]
    /\ alive = [w \in Experts |-> FALSE]
    /\ frame_count = [w \in Experts |-> 0]
    /\ srv_frame_count = 0
    /\ disp = <<>>
    /\ rt = NoRoute
    /\ camera_data = [k \in DashCameras |-> {}]
    /\ latest_results = [k \in DashCameras |-> {}]
    /\ startup = [w \in Experts |-> "pending"]
    /\ wire = [c \in AllConns |-> <<>>]
    /\ sio = {}
    /\ rooms = {}
    /\ delivered = {}
    /\ delivering = [w \in Experts |-> FALSE]
    /\ camera_frames = EmptyMap
    /\ camera_locks = {}
    /\ camera_status = EmptyMap
    /\ camera_fps = EmptyMap
    /\ frame_timestamps = EmptyMap
    /\ client_cameras = EmptyMap
    /\ stream_sids = {}
    /\ now = 0
    /\ frames_stored = [cam \in StreamCameras |-> <<>>]
    /\ scan = NoScan
    /\ client_now = StartTime
    /\ current_time = 0
    /\ last_yolo_time = [cam \in ClientCameras |-> 0]
    /\ last_blip_time = [cam \in ClientCameras |-> 0]
    /\ client_connected = [cam \in ClientCameras |-> FALSE]
    /\ client_pc = [at |-> "connect", cam |-> 1]
    /\ last_sent = [cam \in ClientCameras |-> [e \in ClientExperts |-> Never]]
    /\ failures = [cam \in ClientCameras |-> 0]
    /\ working = [cam \in ClientCameras |-> TRUE]
    /\ unread = [cam \in ClientCameras |-> {}]
    /\ consumed = [cam \in ClientCameras |-> <<>>]

\* ---------------------------------------------------------------- startup
\* How one try block of initialize_workers can end: the import or the
\* constructor raised ("absent": self.workers[name] was never assigned),
\* start() raised in initialize_model ("failed": the worker is already in
\* self.workers, create_task(process_loop) was not reached), or start()
\* returned ("started").
StartupOutcomes == {"absent", "failed", "started"}

\* Whether self.workers[name] is assigned in a try block that ends with `how`:
\* the assignment precedes `await self.workers[name].start()`.
Registered(how) == how # "absent"

\* run_server awaits initialize_workers before it starts the Flask thread and
\* before websockets.serve.
Serving == \A w \in Experts : startup[w] # "pending"

\* One try block of initialize_workers, for expert w, ending with `how`.
initialize_worker(w, how) ==
    /\ startup[w] = "pending"
    /\ \A i \in 1..Len(ExpertOrder) :
          ExpertOrder[i] = w => \A j \in 1..(i - 1) : startup[ExpertOrder[j]] # "pending"
    /\ startup' = [startup EXCEPT ![w] = how]
    /\ workers' = IF Registered(how) THEN workers \cup {w} ELSE workers
    /\ alive' = [alive EXCEPT ![w] = how = "started"]
    /\ UNCHANGED <<AI_MODELS, conn, job_queue, cur, frame_count, srv_frame_count,
                   disp, rt, camera_data, latest_results, wire, dash, stream, client, delivering, connected_clients>>

\* ------------------------------------------------------------ connections
\* A handler that discards its websocket only where it prints the disconnect.
handler_ends_on_close_only(S, c, why) == IF why = "exception" THEN S ELSE S \ {c}
\* handle_client's `finally: self.connected_clients.discard(websocket)`: the
\* set after the handler of c ended, because the `async for` ended or raised
\* ConnectionClosed ("closed") or because of another exception ("exception").
handler_ends(S, c, why) == S \ {c}

\* handle_client starts: connected_clients.add(websocket).
Connect(c) ==
    /\ Serving
    /\ rt = NoRoute
    /\ conn[c] = "new"
    /\ conn' = [conn EXCEPT ![c] = "open"]
    /\ connected_clients' = connected_clients \cup {c}
    /\ UNCHANGED <<AI_MODELS, workers, job_queue, cur, alive, frame_count,
                   srv_frame_count, disp, rt, camera_data, latest_results,
                   startup, wire, dash, stream, client, delivering>>

\* The transport closes: the `async for` ends and connected_clients.discard runs.
Close(c) ==
    /\ rt = NoRoute
    /\ conn[c] = "open"
    /\ conn' = [conn EXCEPT ![c] = "closed"]
    /\ connected_clients' = handler_ends(connected_clients, c, "closed")
    /\ UNCHANGED <<AI_MODELS, workers, job_queue, cur, alive, frame_count,
                   srv_frame_count, disp, rt, camera_data, latest_results,
                   startup, wire, dash, stream, client, delivering>>

\* ------------------------------------------------------------- dashboard
\* The <model_name> of a toggle request: the keys of AI_MODELS and a name that
\* is none.
ModelNames == Experts \cup {"ocr"}
\* What request.get_json() yields: {"enabled": true} ("on"), {"enabled":
\* false} ("off"), an object without "enabled" ("flip"), or None ("none").
ToggleBodies == {"on", "off", "flip", "none"}

\* The status code toggle_model returns: 404 for a name that is no key of
\* AI_MODELS, 500 when data.get raises on a missing body, else 200.
toggle_status(m, body) ==
    IF m \notin DOMAIN AI_MODELS THEN 404
    ELSE IF body = "none" THEN 500
    ELSE 200

\* A toggle that makes an entry for a name it does not know.
toggled_creating(m, body) ==
    IF m \notin DOMAIN AI_MODELS THEN (m :> (body = "on")) @@ AI_MODELS
    ELSE [AI_MODELS EXCEPT ![m] = body = "on"]
\* AI_MODELS after toggle_model(m) with that body: `enabled` defaults to the
\* negation of the current value.
toggled(m, body) ==
    IF toggle_status(m, body) # 200 THEN AI_MODELS
    ELSE [AI_MODELS EXCEPT ![m] = IF body = "on" THEN TRUE
                                  ELSE IF body = "off" THEN FALSE
                                  ELSE ~AI_MODELS[m]]

\* POST /api/models/<m>/toggle with that body, on the Flask thread, which
\* runs beside the event loop. The submit loop of route_frame_to_workers reads
\* no toggle, so a toggle that falls inside it is taken right after it.
toggle_model(m, body) ==
    /\ Serving
    /\ rt.phase # "submit"
    /\ AI_MODELS' = toggled(m, body)
    /\ UNCHANGED <<workers, conn, job_queue, cur, alive, frame_count,
                   srv_frame_count, disp, rt, camera_data, latest_results,
                   startup, wire, dash, stream, client, delivering, connected_clients>>

\* ---------------------------------------------------------------- routing
\* A handler that reads its next message only when every dispatch of its
\* connection has been answered.
SuspendedUntilDelivered(c) ==
    \E d \in 1..Len(disp) :
        /\ disp[d].conn = c
        /\ disp[d].sent = <<>>
\* Whether handle_client's `async for` on connection c is held back by a frame
\* it has dispatched: `await self.process_frame_message(...)` and `await
\* self.handle_json_message(...)` return when the last add_job has returned,
\* the results come later through the callbacks, so nothing holds it back.
Suspended(c) == FALSE

\* BaseWorker.add_job called by dispatch d on worker w: the fields of d's record
\* after the call (ret keeps the value the caller receives and drops).
Submitted(D, w) == [D EXCEPT !.ret = (w :> add_job_returns(job_queue[w])) @@ D.ret]

\* A pending set built from the toggles as they stand after the loop.
pending_enabled_now(en) == {w \in Range(en) : AI_MODELS[w]}
\* `pending_workers = set(enabled_workers)`
pending_workers(en) == Range(en)

\* route_frame_to_workers once the loop over self.workers has filled
\* enabled_workers (the list `en`): pending_workers = set(enabled_workers); with
\* no enabled worker the empty result is sent and the dispatch is over,
\* otherwise the submit loop starts.
AfterCheck(d, D, en) ==
    IF en = <<>>
    THEN /\ disp' = [disp EXCEPT ![d] =
                [D EXCEPT !.sent = send_empty(D)]]
         /\ rt' = NoRoute
         /\ srv_frame_count' = srv_frame_count + 1
    ELSE /\ disp' = [disp EXCEPT ![d] =
                [D EXCEPT !.enabled_workers = en, !.pending = pending_workers(en)]]
         /\ rt' = [d |-> d, todo |-> en, phase |-> "submit"]
         /\ UNCHANGED srv_frame_count

\* A binary frame arrives on connection c: process_frame_message calls
\* route_frame_to_workers, which starts its loop over self.workers.
RouteBegin(c) ==
    /\ rt = NoRoute
    /\ conn[c] = "open"
    /\ ~Suspended(c)
    /\ Len(disp) < MaxDispatch
    /\ LET d == Len(disp) + 1
           D == NewDispatch("fan", c, LegacyCamera)
       IN  IF WorkerOrder = <<>>
           THEN /\ disp' = Append(disp,
                      [D EXCEPT !.sent = send_empty(D)])
                /\ rt' = NoRoute
                /\ srv_frame_count' = srv_frame_count + 1
           ELSE /\ disp' = Append(disp, D)
                /\ rt' = [d |-> d, todo |-> WorkerOrder, phase |-> "check"]
                /\ UNCHANGED srv_frame_count
    /\ UNCHANGED <<AI_MODELS, workers, conn, job_queue, cur, alive, frame_count,
                   camera_data, latest_results,
                   startup, wire, dash, stream, client, delivering, connected_clients>>

\* One iteration of `for worker_name, worker in self.workers.items()`: the
\* toggle of the next worker is read; after the last one the function goes on.
RouteCheck ==
    /\ rt.phase = "check"
    /\ LET d == rt.d
           D == disp[d]
           w == Head(rt.todo)
           en == IF AI_MODELS[w] THEN Append(D.enabled_workers, w)
                 ELSE D.enabled_workers
       IN  IF Tail(rt.todo) = <<>>
           THEN AfterCheck(d, D, en)
           ELSE /\ disp' = [disp EXCEPT ![d] = [D EXCEPT !.enabled_workers = en]]
                /\ rt' = [rt EXCEPT !.todo = Tail(rt.todo)]
                /\ UNCHANGED srv_frame_count
    /\ UNCHANGED <<AI_MODELS, workers, conn, job_queue, cur, alive, frame_count,
                   camera_data, latest_results,
                   startup, wire, dash, stream, client, delivering, connected_clients>>

\* One iteration of `for worker_name in enabled_workers`: add_job on the next
\* worker, its return value dropped; after the last one route_frame_to_workers
\* returns and process_frame_message counts the frame.
RouteSubmit ==
    /\ rt.phase = "submit"
    /\ LET d == rt.d
           w == Head(rt.todo)
       IN  /\ job_queue' = [job_queue EXCEPT ![w] = put_nowait(job_queue[w], d)]
           /\ disp' = [disp EXCEPT ![d] = Submitted(disp[d], w)]
           /\ IF Tail(rt.todo) = <<>>
              THEN /\ rt' = NoRoute
                   /\ srv_frame_count' = srv_frame_count + 1
              ELSE /\ rt' = [rt EXCEPT !.todo = Tail(rt.todo)]
                   /\ UNCHANGED srv_frame_count
    /\ UNCHANGED <<AI_MODELS, workers, conn, cur, alive, frame_count,
                   camera_data, latest_results,
                   startup, wire, dash, stream, client, delivering, connected_clients>>

\* A router that takes every key of AI_MODELS for a registered worker.
AvailableIfKnown(e) == e \in Experts
\* `expert_type not in self.workers`, negated.
Available(e) == e \in workers

\* A JSON frame request {"expert": e, "camera_id": cam, "frame": ...} arrives on
\* connection c: process_json_frame_message calls route_frame_to_expert.
route_frame_to_expert(c, e, cam) ==
    /\ rt = NoRoute
    /\ conn[c] = "open"
    /\ ~Suspended(c)
    /\ Len(disp) < MaxDispatch
    /\ LET D == [NewDispatch("single", c, cam) EXCEPT !.enabled_workers = <<e>>]
       IN  IF ~Available(e)
           THEN /\ disp' = Append(disp,
                      [D EXCEPT !.sent = Sent(D, [type |-> "error", results |-> EmptyMap])])
                /\ UNCHANGED job_queue
           ELSE /\ job_queue' = [job_queue EXCEPT ![e] = put_nowait(job_queue[e], Len(disp) + 1)]
                /\ disp' = Append(disp, Submitted(D, e))
    /\ srv_frame_count' = srv_frame_count + 1
    /\ UNCHANGED <<AI_MODELS, workers, conn, cur, alive, frame_count, rt,
                   camera_data, latest_results,
                   startup, wire, dash, stream, client, delivering, connected_clients>>

\* -------------------------------------------------------------- SocketIO
\* room = f"camera_{camera_id}"
room(id) == <<"camera_", id>>
\* `if camera_id:`
Truthy(id) == id # ""

\* broadcast_camera_stats(cam): socketio.emit('camera_stats_update', ...,
\* room=room) reaches the clients in the camera's room, and the second emit,
\* without a room, reaches every connected client; the updates received afterwards.
broadcast_camera_stats(cam) ==
    delivered \cup {<<s, cam>> : s \in {x \in sio : <<x, room(cam)>> \in rooms}}
              \cup {<<s, cam>> : s \in sio}

\* handle_connect / handle_disconnect; Flask-SocketIO takes a client that
\* disconnects out of its rooms.
handle_connect(s) ==
    /\ Serving
    /\ s \notin sio
    /\ sio' = sio \cup {s}
    /\ UNCHANGED <<AI_MODELS, workers, conn, job_queue, cur, alive, frame_count,
                   srv_frame_count, disp, rt, camera_data, latest_results,
                   startup, wire, rooms, delivered, stream, client, delivering, connected_clients>>

handle_disconnect(s) ==
    /\ s \in sio
    /\ sio' = sio \ {s}
    /\ rooms' = {r \in rooms : r[1] # s}
    /\ UNCHANGED <<AI_MODELS, workers, conn, job_queue, cur, alive, frame_count,
                   srv_frame_count, disp, rt, camera_data, latest_results,
                   startup, wire, delivered, stream, client, delivering, connected_clients>>

\* handle_subscribe_camera(data) from client s: join_room when camera_id is true.
handle_subscribe_camera(s, id) ==
    /\ s \in sio
    /\ rooms' = IF Truthy(id) THEN rooms \cup {<<s, room(id)>>} ELSE rooms
    /\ UNCHANGED <<AI_MODELS, workers, conn, job_queue, cur, alive, frame_count,
                   srv_frame_count, disp, rt, camera_data, latest_results,
                   startup, wire, sio, delivered, stream, client, delivering, connected_clients>>

\* handle_unsubscribe_camera(data) from client s: leave_room when camera_id is true.
handle_unsubscribe_camera(s, id) ==
    /\ s \in sio
    /\ rooms' = IF Truthy(id) THEN rooms \ {<<s, room(id)>>} ELSE rooms
    /\ UNCHANGED <<AI_MODELS, workers, conn, job_queue, cur, alive, frame_count,
                   srv_frame_count, disp, rt, camera_data, latest_results,
                   startup, wire, sio, delivered, stream, client, delivering, connected_clients>>

\* update_camera_data(cam, w, result), as a worker's callback calls it: nothing
\* happens for a disabled model; otherwise the result is stored for the camera
\* and broadcast_camera_stats is called.
update_camera_data(cam, w) ==
    /\ Serving
    /\ w \in workers /\ alive[w]
    /\ ModelEnabled(w)
    /\ camera_data' = [camera_data EXCEPT ![cam] = @ \cup {w}]
    /\ latest_results' = [latest_results EXCEPT ![cam] = @ \cup {w}]
    /\ delivered' = broadcast_camera_stats(cam)
    /\ UNCHANGED <<AI_MODELS, workers, conn, job_queue, cur, alive, frame_count,
                   srv_frame_count, disp, rt, startup, wire, sio, rooms, stream, client, delivering, connected_clients>>

\* ---------------------------------------------------------------- workers
\* A loop that hands the callback to a task of its own and goes on.
LoopAtGetOrSending(w) == cur[w] = NoJob \/ delivering[w]
\* Whether the worker's loop stands at `job = await self.job_queue.get()`: the
\* body for the job before, with its awaited callback and task_done, is over.
LoopAtGet(w) == cur[w] = NoJob

\* `job = await self.job_queue.get()`: the loop takes the oldest queued job.
WorkerGet(w) ==
    /\ rt = NoRoute
    /\ alive[w]
    /\ LoopAtGet(w)
    /\ job_queue[w] # <<>>
    /\ cur' = [cur EXCEPT ![w] = get(job_queue[w])[1]]
    /\ job_queue' = [job_queue EXCEPT ![w] = get(job_queue[w])[2]]
    /\ disp' = [disp EXCEPT ![get(job_queue[w])[1]].taken = Bump(@, w)]
    /\ UNCHANGED <<AI_MODELS, workers, conn, alive, frame_count, srv_frame_count,
                   rt, camera_data, latest_results,
                   startup, wire, dash, stream, client, delivering, connected_clients>>

\* collect_result(cam_id, worker_name, result): the dispatch record afterwards.
\* send_combined_result catches every exception of its websocket.send.
collect_result(D, w, result) ==
    LET results == (w :> result) @@ D.results
        pending == discard(D.pending, w)
        collected == [D EXCEPT !.results = results, !.pending = pending,
                               !.outcome = (w :> "ok") @@ D.outcome,
                               !.calls = Bump(D.calls, w)]
    IN  IF AllResponded(pending)
        THEN [collected EXCEPT !.sent = Sent(D, [type |-> "combined", results |-> results])]
        ELSE collected

\* A send_combined_result that stores the results whether or not they were sent.
CombinedStoredAnyway(D, w) == AllResponded(discard(D.pending, w))
\* Whether this call of collect_result reaches the stores of send_combined_result:
\* they follow websocket.send inside the try, and a closed connection makes it raise.
CombinedStored(D, w) ==
    AllResponded(discard(D.pending, w)) /\ conn[D.conn] = "open"

\* process_frame raised for the job of dispatch d: `except Exception` prints and
\* calls task_done; the callback is not called.
WorkerRaise(w) ==
    /\ rt = NoRoute
    /\ alive[w]
    /\ cur[w] # NoJob
    /\ ~delivering[w]
    /\ LET d == cur[w]
       IN  disp' = [disp EXCEPT ![d].outcome = (w :> "raise") @@ @,
                                ![d].done = task_done(@, w)]
    /\ cur' = [cur EXCEPT ![w] = NoJob]
    /\ alive' = [alive EXCEPT ![w] = LoopSurvives("raise")]
    /\ UNCHANGED <<AI_MODELS, workers, conn, job_queue, frame_count,
                   srv_frame_count, rt, camera_data, latest_results,
                   startup, wire, dash, stream, client, delivering, connected_clients>>

\* An aggregator keyed by camera: the newest fan-out dispatch of the job's camera.
newest_of_camera(d) ==
    CHOOSE a \in 1..Len(disp) :
        /\ disp[a].mode = "fan" /\ disp[a].cam = disp[d].cam
        /\ \A b \in (a + 1)..Len(disp) :
              ~(disp[b].mode = "fan" /\ disp[b].cam = disp[d].cam)
\* job["callback"]: the closure collect_result that route_frame_to_workers
\* created in the call that made the job; the dispatch whose results and
\* pending_workers it writes.
callback(d) == d

\* `await job["callback"](...)` for a job of a fan-out dispatch, up to
\* task_done: the callback collect_result runs, with send_combined_result
\* when the last outstanding worker has reported.
FanCallback(w) ==
    /\ rt = NoRoute
    /\ alive[w]
    /\ cur[w] # NoJob
    /\ disp[cur[w]].mode = "fan"
    /\ LET d == cur[w]
           a == callback(d)
           D == disp[a]
           keys == DOMAIN D.results \cup {w}
       IN  /\ disp' = [disp EXCEPT ![a] = collect_result(D, w, process_frame(d, w)),
                                   ![d].done = task_done(@, w)]
           /\ IF CombinedStored(D, w)
              THEN /\ latest_results' = [latest_results EXCEPT ![D.cam] = keys]
                   /\ camera_data' = [camera_data EXCEPT ![D.cam] =
                                        @ \cup {x \in keys : ModelEnabled(x)}]
                   /\ delivered' = IF \E x \in keys : ModelEnabled(x)
                                    THEN broadcast_camera_stats(D.cam) ELSE delivered
              ELSE UNCHANGED <<camera_data, latest_results, delivered>>
    /\ cur' = [cur EXCEPT ![w] = NoJob]
    /\ UNCHANGED <<AI_MODELS, workers, conn, job_queue, alive, srv_frame_count,
                   rt, startup, wire, sio, rooms, stream, client, connected_clients>>

\* process_frame returned for a job of a fan-out dispatch: frame_count is
\* counted and the callback runs without being held up in its send.
WorkerFinishFan(w) ==
    /\ ~delivering[w]
    /\ FanCallback(w)
    /\ frame_count' = [frame_count EXCEPT ![w] = @ + 1]
    /\ UNCHANGED delivering

\* `await job["callback"](...)` for a job of a single-expert request, up to
\* task_done: the callback send_result runs; its websocket.send raises on a
\* closed connection, which ends the callback before update_camera_data and
\* lands in process_loop's `except Exception`.
SingleCallback(w) ==
    /\ rt = NoRoute
    /\ alive[w]
    /\ cur[w] # NoJob
    /\ disp[cur[w]].mode = "single"
    /\ LET d == cur[w]
           D == disp[d]
       IN  IF conn[D.conn] = "open"
           THEN /\ disp' = [disp EXCEPT ![d] =
                       [D EXCEPT !.sent = Sent(D, [type |-> "result",
                                                   results |-> (w :> process_frame(d, w))]),
                                 !.outcome = (w :> "ok") @@ D.outcome,
                                 !.calls = Bump(D.calls, w),
                                 !.done = task_done(D.done, w)]]
                /\ IF ModelEnabled(w)
                   THEN /\ camera_data' = [camera_data EXCEPT ![D.cam] = @ \cup {w}]
                        /\ latest_results' = [latest_results EXCEPT ![D.cam] = @ \cup {w}]
                        /\ delivered' = broadcast_camera_stats(D.cam)
                   ELSE UNCHANGED <<camera_data, latest_results, delivered>>
                /\ UNCHANGED alive
           ELSE /\ disp' = [disp EXCEPT ![d] =
                       [D EXCEPT !.outcome = (w :> "cbraise") @@ D.outcome,
                                 !.calls = Bump(D.calls, w),
                                 !.done = task_done(D.done, w)]]
                /\ alive' = [alive EXCEPT ![w] = LoopSurvives("cbraise")]
                /\ UNCHANGED <<camera_data, latest_results, delivered>>
    /\ cur' = [cur EXCEPT ![w] = NoJob]
    /\ UNCHANGED <<AI_MODELS, workers, conn, job_queue, srv_frame_count,
                   rt, startup, wire, sio, rooms, stream, client, connected_clients>>

\* process_frame returned for a job of a single-expert request: frame_count
\* is counted and the callback runs without being held up in its send.
WorkerFinishSingle(w) ==
    /\ ~delivering[w]
    /\ SingleCallback(w)
    /\ frame_count' = [frame_count EXCEPT ![w] = @ + 1]
    /\ UNCHANGED delivering

\* The dashboard sends explicit values for the models it lists; a request
\* that changes nothing (unknown name, missing body) leaves no trace here.
Next ==
    \/ \E w \in Experts, how \in StartupOutcomes : initialize_worker(w, how)
    \/ \E c \in Conns : Connect(c)
    \/ \E c \in Conns : Close(c)
    \/ \E m \in Experts, body \in {"on", "off"} : toggle_model(m, body)
    \/ \E c \in Conns : RouteBegin(c)
    \/ RouteCheck
    \/ RouteSubmit
    \/ \E c \in Conns, e \in Experts, cam \in Cameras : route_frame_to_expert(c, e, cam)
    \/ \E w \in Experts : WorkerGet(w)
    \/ \E w \in Experts : WorkerRaise(w)
    \/ \E w \in Experts : WorkerFinishFan(w)
    \/ \E w \in Experts : WorkerFinishSingle(w)

Spec == Init /\ [][Next]_vars

\* The event loop runs every ready task in turn, so a worker whose queue holds a
\* job gets to take it, an inference that returns or raises is followed by the
\* rest of the loop body, and a routing that has started runs to its end.
WorkerEnd(w) ==
    \/ WorkerRaise(w)
    \/ WorkerFinishFan(w)
    \/ WorkerFinishSingle(w)

\* The steps of the event loop alone: the dashboard leaves every toggle as it is.
LoopNext ==
    \/ \E w \in Experts, how \in StartupOutcomes : initialize_worker(w, how)
    \/ \E c \in Conns : Connect(c)
    \/ \E c \in Conns : Close(c)
    \/ \E c \in Conns : RouteBegin(c)
    \/ RouteCheck
    \/ RouteSubmit
    \/ \E c \in Conns, e \in Experts, cam \in Cameras : route_frame_to_expert(c, e, cam)
    \/ \E w \in Experts : WorkerGet(w)
    \/ \E w \in Experts : WorkerRaise(w)
    \/ \E w \in Experts : WorkerFinishFan(w)
    \/ \E w \in Experts : WorkerFinishSingle(w)

FairSpec ==
    /\ Init /\ [][LoopNext]_vars
    /\ WF_vars(RouteCheck \/ RouteSubmit)
    /\ \A w \in Experts : WF_vars(WorkerGet(w)) /\ WF_vars(WorkerEnd(w))

\* ------------------------------------------------------- inbound messages
\* A websocket message as handle_client tells them apart: bytes or text; for
\* text whether json.loads raises ("malformed") or what it returns ("object": a
\* dict, "array": any other JSON value); for a dict its "type", "expert" and
\* "frame" entries ("none": absent); a frame is a JPEG ("image"), bytes that
\* are no image ("garbage") or text that is no base64 ("badb64").
Msg(form, json, type, expert, frame) ==
    [form |-> form, json |-> json, type |-> type, expert |-> expert,
     frame |-> frame, cam |-> LegacyCamera]

Inbound ==
    { Msg("bytes", "none", "none", "none", "image"),
      Msg("bytes", "none", "none", "none", "garbage"),
      Msg("text", "malformed", "none", "none", "none"),
      Msg("text", "array", "none", "none", "none"),
      Msg("text", "object", "ping", "none", "none"),
      Msg("text", "object", "stats", "none", "none"),
      Msg("text", "object", "none", "none", "none"),
      Msg("text", "object", "none", "yolo", "none"),
      Msg("text", "object", "none", "yolo", "badb64"),
      Msg("text", "object", "none", "yolo", "garbage"),
      Msg("text", "object", "none", "ocr", "image"),
      Msg("text", "object", "none", "BLIP", "image") }

\* str.lower on the expert names that occur.
lower(e) == IF e = "BLIP" THEN "blip" ELSE e

\* cv2.imdecode returns an image, or None for bytes that are none.
imdecode(frame) == frame = "image"

\* process_frame_message up to its routing call: the reply, or "route_workers".
process_frame_message(m) ==
    IF imdecode(m.frame) THEN "route_workers" ELSE "error"

\* process_json_frame_message up to its routing call: b64decode raises on bad
\* base64 and the function's `except Exception` answers with the error.
process_json_frame_message(m) ==
    IF m.expert = "none" \/ m.frame = "none" THEN "error"
    ELSE IF m.frame = "badb64" THEN "error"
    ELSE IF ~imdecode(m.frame) THEN "error"
    ELSE "route_expert"

\* A handler that looks at "expert" and "frame" only and knows no "type".
handle_json_message_typeless(m) ==
    IF m.json # "object" THEN "raise"
    ELSE IF m.expert # "none" /\ m.frame # "none" THEN process_json_frame_message(m)
    ELSE "error"
\* handle_json_message(websocket, data): data.get raises AttributeError when
\* data is not a dict ("raise").
handle_json_message(m) ==
    IF m.json # "object" THEN "raise"
    ELSE IF m.type = "ping" THEN "pong"
    ELSE IF m.type = "stats" THEN "stats"
    ELSE IF m.expert # "none" /\ m.frame # "none" THEN process_json_frame_message(m)
    ELSE "error"

\* The body of handle_client's `async for`: what one message leads to. Only
\* json.JSONDecodeError is caught around handle_json_message; any other
\* exception leaves the loop through the outer `except Exception`.
handle_message(m) ==
    IF m.form = "bytes" THEN process_frame_message(m)
    ELSE IF m.json = "malformed" THEN "error"
    ELSE handle_json_message(m)

\* handle_client reads message m on connection c. A frame goes to a routing
\* function; every other message is answered at once, or ends the handler
\* (`finally` discards the websocket and the connection is closed).
handle_client(c, m) ==
    LET h == handle_message(m)
    IN  IF h = "route_workers" THEN RouteBegin(c)
        ELSE IF h = "route_expert" THEN route_frame_to_expert(c, lower(m.expert), m.cam)
        ELSE /\ rt = NoRoute
             /\ conn[c] = "open"
             /\ ~Suspended(c)
             /\ Len(wire[c]) < MaxMessages
             /\ wire' = [wire EXCEPT ![c] =
                           Append(@, [msg |-> m,
                                      reply |-> IF h = "raise" THEN "none" ELSE h,
                                      goes_on |-> h # "raise"])]
             /\ conn' = [conn EXCEPT ![c] = IF h = "raise" THEN "closed" ELSE @]
             /\ connected_clients' =
                   IF h = "raise" THEN handler_ends(connected_clients, c, "exception")
                   ELSE connected_clients
             /\ UNCHANGED <<AI_MODELS, workers, job_queue, cur, alive, frame_count,
                            srv_frame_count, disp, rt, camera_data, latest_results,
                            startup, dash, stream, client, delivering>>

\* The reading side of the connections: every kind of inbound message, with
\* the routing the frames among them start; the workers are not scheduled.
ClientNext ==
    \/ \E w \in Experts, how \in StartupOutcomes : initialize_worker(w, how)
    \/ \E c \in Conns : Connect(c)
    \/ \E c \in Conns : Close(c)
    \/ \E c \in Conns, m \in Inbound : handle_client(c, m)
    \/ RouteCheck
    \/ RouteSubmit

ClientSpec == Init /\ [][ClientNext]_vars

\* One message for each way the body of handle_client's loop can end: a
\* frame that is routed, a command that is answered, a stats request, and a
\* JSON value that is no object, on which handle_json_message raises.
HandlerMessages ==
    {m \in Inbound : \/ m.form = "bytes" /\ m.frame = "image"
                     \/ m.type \in {"ping", "stats"}
                     \/ m.json = "array"}

\* The handlers of two connections.
HandlerNext ==
    \/ \E w \in Experts : initialize_worker(w, "started")
    \/ \E c \in AllConns : Connect(c)
    \/ \E c \in AllConns : Close(c)
    \/ \E c \in AllConns, m \in HandlerMessages : handle_client(c, m)
    \/ RouteCheck
    \/ RouteSubmit

HandlerSpec == Init /\ [][HandlerNext]_vars

\* The dashboard side: SocketIO clients come, subscribe and go while the
\* workers' callbacks store results for the cameras.
DashNext ==
    \/ \E w \in Experts, how \in StartupOutcomes : initialize_worker(w, how)
    \/ \E m \in ModelNames, body \in ToggleBodies : toggle_model(m, body)
    \/ \E s \in Sids : handle_connect(s)
    \/ \E s \in Sids : handle_disconnect(s)
    \/ \E s \in Sids, id \in SubIds : handle_subscribe_camera(s, id)
    \/ \E s \in Sids, id \in SubIds : handle_unsubscribe_camera(s, id)
    \/ \E cam \in DashCameras, w \in Experts : update_camera_data(cam, w)

DashSpec == Init /\ [][DashNext]_vars

\* The messages a client sends in regular use: ping, stats and frames in
\* both protocols.
Commands == {m \in Inbound : m.type \in {"ping", "stats"} \/ m.frame = "image"}

\* The whole server in regular use: started workers, a client that sends
\* frames and commands, the workers' loops and the dashboard's toggle.
CommandNext ==
    \/ \E w \in Experts : initialize_worker(w, "started")
    \/ \E c \in Conns : Connect(c)
    \/ \E c \in Conns : Close(c)
    \/ \E m \in ModelNames, body \in ToggleBodies : toggle_model(m, body)
    \/ \E c \in Conns, m \in Commands :
          /\ m.frame = "image" => Len(disp) < MaxCommandFrames
          /\ handle_client(c, m)
    \/ RouteCheck
    \/ RouteSubmit
    \/ \E w \in Experts : WorkerGet(w)
    \/ \E w \in Experts : WorkerRaise(w)
    \/ \E w \in Experts : WorkerFinishFan(w)
    \/ \E w \in Experts : WorkerFinishSingle(w)

CommandSpec == Init /\ [][CommandNext]_vars

\* Two clients, each on a websocket of its own, send frames in both protocols
\* to a server whose workers all started; the toggles stay as they are and no
\* inference raises.
PairNext ==
    \/ \E w \in Experts : initialize_worker(w, "started")
    \/ \E c \in AllConns : Connect(c)
    \/ \E c \in AllConns : Close(c)
    \/ \E c \in AllConns : RouteBegin(c)
    \/ RouteCheck
    \/ RouteSubmit
    \/ \E c \in AllConns, e \in Experts, cam \in Cameras : route_frame_to_expert(c, e, cam)
    \/ \E w \in Experts : WorkerGet(w)
    \/ \E w \in Experts : WorkerFinishFan(w)
    \/ \E w \in Experts : WorkerFinishSingle(w)

PairSpec == Init /\ [][PairNext]_vars

\* ------------------------------------------------- deliveries that take time
\* process_frame returned, frame_count is counted and the callback is called:
\* its `await websocket.send(...)` (in send_result, or in send_combined_result
\* for the last result of a fan-out) suspends the worker's loop while the
\* message drains to the client.
SendSuspends(w) ==
    /\ rt = NoRoute
    /\ alive[w]
    /\ cur[w] # NoJob
    /\ ~delivering[w]
    /\ delivering' = [delivering EXCEPT ![w] = TRUE]
    /\ frame_count' = [frame_count EXCEPT ![w] = @ + 1]
    /\ UNCHANGED <<AI_MODELS, workers, conn, job_queue, cur, alive, srv_frame_count,
                   disp, rt, camera_data, latest_results, startup, wire, dash,
                   stream, client, connected_clients>>

\* The send returns or raises: the rest of the callback and task_done.
SendReturns(w) ==
    /\ delivering[w]
    /\ FanCallback(w) \/ SingleCallback(w)
    /\ delivering' = [delivering EXCEPT ![w] = FALSE]
    /\ UNCHANGED frame_count

\* Two clients with a camera each, every worker started, deliveries that
\* take time.
DeliveryNext ==
    \/ \E w \in Experts : initialize_worker(w, "started")
    \/ \E c \in AllConns : Connect(c)
    \/ \E c \in AllConns : Close(c)
    \/ \E c \in AllConns : RouteBegin(c)
    \/ RouteCheck
    \/ RouteSubmit
    \/ \E c \in AllConns, e \in Experts : route_frame_to_expert(c, e, CameraOf(c))
    \/ \E w \in Experts : WorkerGet(w)
    \/ \E w \in Experts : WorkerRaise(w)
    \/ \E w \in Experts : SendSuspends(w)
    \/ \E w \in Experts : SendReturns(w)

DeliverySpec == Init /\ [][DeliveryNext]_vars

\* ---------------------------------------------------------- stream server
\* A dict without the keys in `keys` (del d[k] for each).
Without(f, keys) == [k \in DOMAIN f \ keys |-> f[k]]
\* d[k] = v on a dict.
Put(f, k, v) == (k :> v) @@ f

\* round(x, 1) for x = num / den, in tenths: Python rounds a tie to the even digit.
round1(num, den) ==
    LET t == 10 * num
        q == t \div den
        r == 2 * (t % den)
    IN  IF r < den THEN q
        ELSE IF r > den THEN q + 1
        ELSE IF q % 2 = 0 THEN q ELSE q + 1

\* deque(maxlen=MaxStamps).append(t)
append_stamp(dq, t) ==
    IF Len(dq) < MaxStamps THEN Append(dq, t) ELSE Append(Tail(dq), t)

\* What the frame bytes of a 'frame' event are to update_frame: a JPEG
\* ("image"), bytes cv2.imdecode returns None for ("garbage"), or no bytes at
\* all, for which cv2.imdecode raises ("empty").
FrameKinds == {"image", "garbage", "empty"}

\* A test that lets a camera go one second longer.
StaleLater(last_update) == now - last_update > InactivityTimeout + 1
\* get_camera_status: `if current_time - last_update > 5`
Stale(last_update) == now - last_update > InactivityTimeout

\* StreamManager.update_frame(camera_id, frame_data, client_id). An exception
\* of imdecode is caught inside: only the lock was made by then.
update_frame(cam, kind, s) ==
    /\ camera_locks' = camera_locks \cup {cam}
    /\ IF kind = "empty"
       THEN UNCHANGED <<camera_frames, camera_status, camera_fps,
                        frame_timestamps, client_cameras, frames_stored>>
       ELSE LET stamps == append_stamp(IF cam \in DOMAIN frame_timestamps
                                       THEN frame_timestamps[cam] ELSE <<>>, now)
                diff == stamps[Len(stamps)] - stamps[1]
                fps == IF Len(stamps) > 1 /\ diff > 0
                       THEN Put(camera_fps, cam, round1(Len(stamps) - 1, diff))
                       ELSE camera_fps
            IN  /\ camera_frames' = Put(camera_frames, cam,
                                        [src |-> s, at |-> now, image |-> kind = "image"])
                /\ client_cameras' = Put(client_cameras, cam, s)
                /\ frame_timestamps' = Put(frame_timestamps, cam, stamps)
                /\ camera_fps' = fps
                /\ camera_status' = Put(camera_status, cam,
                       [last_update |-> now, status |-> "active",
                        fps |-> IF cam \in DOMAIN fps THEN fps[cam] ELSE 0,
                        client_id |-> s])
                /\ frames_stored' = [frames_stored EXCEPT ![cam] = Append(@, s)]

\* camera_status after get_camera_status(): every listed camera whose last
\* update is stale is marked inactive with fps 0.
marked_status ==
    [cam \in DOMAIN camera_status |->
        IF cam \in DOMAIN camera_frames /\ Stale(camera_status[cam].last_update)
        THEN [camera_status[cam] EXCEPT !.status = "inactive", !.fps = 0]
        ELSE camera_status[cam]]
\* What get_camera_status() returns: the status of every key of camera_frames.
status_report ==
    [cam \in DOMAIN camera_frames \cap DOMAIN camera_status |-> marked_status[cam]]

\* GET /api/cameras calls StreamManager.get_camera_status().
get_camera_status ==
    /\ camera_status' = marked_status
    /\ UNCHANGED <<camera_frames, camera_locks, camera_fps, frame_timestamps,
                   client_cameras, stream_sids, now, frames_stored>>

\* A remove that forgets every camera, whoever feeds it.
every_camera(s) == DOMAIN client_cameras
\* remove_client_cameras: cameras_to_remove
cameras_to_remove(s) == {cam \in DOMAIN client_cameras : client_cameras[cam] = s}

\* StreamManager.remove_client_cameras(client_id)
remove_client_cameras(s) ==
    LET gone == cameras_to_remove(s)
    IN  /\ camera_frames' = Without(camera_frames, gone)
        /\ camera_status' = Without(camera_status, gone)
        /\ camera_fps' = Without(camera_fps, gone)
        /\ frame_timestamps' = Without(frame_timestamps, gone)
        /\ client_cameras' = Without(client_cameras, gone)
        /\ UNCHANGED <<camera_locks, frames_stored>>

\* The server side of the stream server is left alone by the central server.
central == <<AI_MODELS, workers, conn, job_queue, cur, alive, frame_count,
             srv_frame_count, disp, rt, camera_data, latest_results,
             startup, wire, sio, rooms, delivered, delivering,
             connected_clients>>

\* @socketio.on('connect') of the stream server.
stream_handle_connect(s) ==
    /\ s \notin stream_sids
    /\ stream_sids' = stream_sids \cup {s}
    /\ UNCHANGED <<camera_frames, camera_locks, camera_status, camera_fps,
                   frame_timestamps, client_cameras, now, frames_stored, central, client, scan>>

\* @socketio.on('disconnect') of the stream server.
stream_handle_disconnect(s) ==
    /\ s \in stream_sids
    /\ stream_sids' = stream_sids \ {s}
    /\ remove_client_cameras(s)
    /\ UNCHANGED <<now, central, client, scan>>

\* @socketio.on('frame') from client s with a camera id and frame data that
\* are both true.
handle_frame(s, cam, kind) ==
    /\ s \in stream_sids
    /\ Len(frames_stored[cam]) < MaxFrames
    /\ update_frame(cam, kind, s)
    /\ UNCHANGED <<stream_sids, now, central, client, scan>>

\* GET /api/cameras
stream_get_cameras ==
    /\ get_camera_status
    /\ UNCHANGED <<central, client, scan>>

\* A second passes.
Tick ==
    /\ now < MaxTime
    /\ now' = now + 1
    /\ UNCHANGED <<camera_frames, camera_locks, camera_status, camera_fps,
                   frame_timestamps, client_cameras, stream_sids, frames_stored, central, client, scan>>

StreamNext ==
    \/ \E s \in StreamSids : stream_handle_connect(s)
    \/ \E s \in StreamSids : stream_handle_disconnect(s)
    \/ \E s \in StreamSids, cam \in StreamCameras, kind \in FrameKinds : handle_frame(s, cam, kind)
    \/ stream_get_cameras
    \/ Tick

StreamSpec == Init /\ [][StreamNext]_vars

\* ------------------------------------- get_camera_status beside other threads
\* get_camera_status, statement by statement, on a thread of its own: it takes
\* no lock, so update_frame and remove_client_cameras of other threads run
\* between any two of its steps.

\* The rest of every step of the scan.
ScanStep == UNCHANGED <<camera_frames, camera_locks, camera_fps, frame_timestamps,
                        client_cameras, stream_sids, now, frames_stored,
                        central, client>>

\* `current_time = time.time(); status = {}` and the iterator over
\* self.camera_frames.keys(), which remembers the size of the dict.
ScanBegin ==
    /\ scan.pc \in {"idle", "done", "failed"}
    /\ scan' = [pc |-> "next", current_time |-> now, status |-> EmptyMap,
                size |-> Cardinality(DOMAIN camera_frames), seen |-> {}]
    /\ UNCHANGED camera_status
    /\ ScanStep

\* `for camera_id in self.camera_frames.keys()`: the iterator raises
\* RuntimeError when the dict has changed size (`removed` tells a dict that
\* lost keys from one that gained them); it yields a key it has not yielded, or
\* the loop ends and the function returns status.
ScanNext ==
    /\ scan.pc = "next"
    /\ IF Cardinality(DOMAIN camera_frames) # scan.size
       THEN scan' = [pc |-> "failed", error |-> "RuntimeError", status |-> scan.status,
                    removed |-> Cardinality(DOMAIN camera_frames) < scan.size]
       ELSE IF DOMAIN camera_frames \subseteq scan.seen
       THEN scan' = [pc |-> "done", status |-> scan.status]
       ELSE \E cam \in DOMAIN camera_frames \ scan.seen :
               scan' = [scan EXCEPT !.pc = "check"] @@ [camera_id |-> cam]
    /\ UNCHANGED camera_status
    /\ ScanStep

\* `if camera_id in self.camera_status:`
ScanCheck ==
    /\ scan.pc = "check"
    /\ scan' = [scan EXCEPT !.pc = IF scan.camera_id \in DOMAIN camera_status
                                   THEN "read" ELSE "collected"]
    /\ UNCHANGED camera_status
    /\ ScanStep

\* `last_update = self.camera_status[camera_id]['last_update']`
ScanRead ==
    /\ scan.pc = "read"
    /\ scan' = IF scan.camera_id \in DOMAIN camera_status
               THEN [scan EXCEPT !.pc = "mark"]
                    @@ [last_update |-> camera_status[scan.camera_id].last_update]
               ELSE [pc |-> "failed", error |-> "KeyError", status |-> scan.status, removed |-> TRUE]
    /\ UNCHANGED camera_status
    /\ ScanStep

\* `if current_time - last_update > 5:` with its two assignments into the
\* dict that self.camera_status holds for the camera now.
ScanMark ==
    /\ scan.pc = "mark"
    /\ IF scan.current_time - scan.last_update > InactivityTimeout
       THEN IF scan.camera_id \in DOMAIN camera_status
            THEN /\ camera_status' = [camera_status EXCEPT ![scan.camera_id] =
                                        [@ EXCEPT !.status = "inactive", !.fps = 0]]
                 /\ scan' = [pc |-> "collect", current_time |-> scan.current_time,
                             status |-> scan.status, size |-> scan.size,
                             seen |-> scan.seen, camera_id |-> scan.camera_id]
            ELSE /\ scan' = [pc |-> "failed", error |-> "KeyError", status |-> scan.status, removed |-> TRUE]
                 /\ UNCHANGED camera_status
       ELSE /\ scan' = [pc |-> "collect", current_time |-> scan.current_time,
                        status |-> scan.status, size |-> scan.size,
                        seen |-> scan.seen, camera_id |-> scan.camera_id]
            /\ UNCHANGED camera_status
    /\ ScanStep

\* The age of the camera's latest frame, as far as update_frame has stored one.
FrameAge(cam) ==
    IF cam \in DOMAIN camera_frames THEN now - camera_frames[cam].at ELSE InactivityTimeout + 1

\* `status[camera_id] = self.camera_status[camera_id]`; with the entry the
\* model keeps what the tables say of the camera at this moment.
ScanCollect ==
    /\ scan.pc = "collect"
    /\ LET cam == scan.camera_id
       IN  scan' = IF cam \in DOMAIN camera_status
                   THEN [pc |-> "collected", current_time |-> scan.current_time,
                         size |-> scan.size, seen |-> scan.seen, camera_id |-> cam,
                         status |-> Put(scan.status, cam,
                             [status |-> camera_status[cam].status,
                              fps |-> camera_status[cam].fps,
                              frame_age |-> FrameAge(cam),
                              camera_fps |-> IF cam \in DOMAIN camera_fps
                                             THEN camera_fps[cam] ELSE 0])]
                   ELSE [pc |-> "failed", error |-> "KeyError", status |-> scan.status, removed |-> TRUE]
    /\ UNCHANGED camera_status
    /\ ScanStep

\* The end of the loop body.
ScanLoop ==
    /\ scan.pc = "collected"
    /\ scan' = [pc |-> "next", current_time |-> scan.current_time, status |-> scan.status,
                size |-> scan.size, seen |-> scan.seen \cup {scan.camera_id}]
    /\ UNCHANGED camera_status
    /\ ScanStep

\* The one client of the stream server in a run beside the scan.
ThreadsSid == "a"

\* The threads of the stream server: the SocketIO handlers and one request
\* for the camera list.
ThreadsNext ==
    \/ stream_handle_connect(ThreadsSid)
    \/ stream_handle_disconnect(ThreadsSid)
    \/ \E cam \in StreamCameras : handle_frame(ThreadsSid, cam, "image")
    \/ Tick
    \/ ScanBegin
    \/ ScanNext
    \/ ScanCheck
    \/ ScanRead
    \/ ScanMark
    \/ ScanCollect
    \/ ScanLoop

ThreadsSpec == Init /\ [][ThreadsNext]_vars

\* ---------------------------------------------------------- camera client
interval(e) == IF e = "YOLO" THEN yolo_interval ELSE blip_interval
\* send_frame_to_expert: `timeout = 5.0 if expert_type == "BLIP" else 2.0`
recv_timeout(e) == IF e = "BLIP" THEN blip_timeout ELSE yolo_timeout

\* How long `await websocket.send(...)` followed by `await
\* asyncio.wait_for(recv(), timeout)` can take: the response comes at once,
\* after a second, or not before the timeout.
Waits(e) == {0, 5, recv_timeout(e)}

\* The frame of the client's work lies outside the servers.
servers == <<central, stream>>

\* run_async: `await self.connect_to_server(camera_name)` for the next camera;
\* the connection is made (ok) or refused.
connect_to_server(ok) ==
    /\ client_pc.at = "connect"
    /\ client_connected' =
          [client_connected EXCEPT ![ClientCameraOrder[client_pc.cam]] = ok]
    /\ client_pc' = IF client_pc.cam < Len(ClientCameraOrder)
                    THEN [client_pc EXCEPT !.cam = @ + 1]
                    ELSE [at |-> "top", cam |-> 1]
    /\ UNCHANGED <<client_now, current_time, last_yolo_time, last_blip_time,
                   last_sent, reads, replies, servers>>

\* `while True: current_time = time.time()`
LoopTop ==
    /\ client_pc.at = "top"
    /\ current_time' = client_now
    /\ client_pc' = [at |-> "yolo", cam |-> 1]
    /\ UNCHANGED <<client_now, last_yolo_time, last_blip_time, client_connected,
                   last_sent, reads, replies, servers>>

\* send_frame_to_expert(cam, frame, e) for a camera that is connected: the
\* message is sent now and the call returns after `wait` (a response or the
\* timeout); or websocket.send raises ConnectionClosed, nothing is sent and
\* connect_to_server is tried once (ok). For a camera that is not connected
\* it returns at once.
send_frame_to_expert(cam, e, wait, closed, ok) ==
    IF client_connected[cam]
    THEN /\ last_sent' = IF closed THEN last_sent
                         ELSE [last_sent EXCEPT ![cam][e] = client_now]
         /\ client_now' = IF closed THEN client_now ELSE client_now + wait
         /\ client_connected' = IF closed THEN [client_connected EXCEPT ![cam] = ok]
                                ELSE client_connected
    ELSE UNCHANGED <<last_sent, client_now, client_connected>>

\* The state of the loop after the statement `at` for camera number i.
after(at, i) ==
    IF at = "yolo" THEN [at |-> "blip", cam |-> i]
    ELSE IF i < Len(ClientCameraOrder) THEN [at |-> "yolo", cam |-> i + 1]
    ELSE [at |-> "sleep", cam |-> 1]

\* `if current_time - self.last_yolo_time[camera_name] >= self.yolo_interval:`
\* with its two statements, for the camera the loop is at, whose frame was
\* read; what the step means for the responses is said where it is used.
SendYolo(wait, closed, ok) ==
    /\ client_pc.at = "yolo"
    /\ LET cam == ClientCameraOrder[client_pc.cam]
       IN  IF current_time - last_yolo_time[cam] >= yolo_interval
           THEN /\ send_frame_to_expert(cam, "YOLO", wait, closed, ok)
                /\ client_now' <= MaxClientTime
                /\ last_yolo_time' = [last_yolo_time EXCEPT ![cam] = current_time]
           ELSE UNCHANGED <<last_sent, client_now, client_connected, last_yolo_time>>
    /\ client_pc' = after("yolo", client_pc.cam)
    /\ UNCHANGED <<current_time, last_blip_time, servers>>

\* `if current_time - self.last_blip_time[camera_name] >= self.blip_interval:`
SendBlip(wait, closed, ok) ==
    /\ client_pc.at = "blip"
    /\ LET cam == ClientCameraOrder[client_pc.cam]
       IN  IF current_time - last_blip_time[cam] >= blip_interval
           THEN /\ send_frame_to_expert(cam, "BLIP", wait, closed, ok)
                /\ client_now' <= MaxClientTime
                /\ last_blip_time' = [last_blip_time EXCEPT ![cam] = current_time]
           ELSE UNCHANGED <<last_sent, client_now, client_connected, last_blip_time>>
    /\ client_pc' = after("blip", client_pc.cam)
    /\ UNCHANGED <<current_time, last_yolo_time, servers>>

\* The end of an iteration: cv2.waitKey(1) or asyncio.sleep(0.01), and the
\* cap.read() calls of the next one; together they take `pause`.
LoopSleep(pause) ==
    /\ client_pc.at = "sleep"
    /\ client_now + pause <= MaxClientTime
    /\ client_now' = client_now + pause
    /\ client_pc' = [at |-> "top", cam |-> 1]
    /\ UNCHANGED <<current_time, last_yolo_time, last_blip_time, client_connected,
                   last_sent, reads, replies, servers>>

CameraClientNext ==
    \/ \E ok \in BOOLEAN : connect_to_server(ok)
    \/ LoopTop
    \/ \E wait \in Waits("YOLO"), closed \in BOOLEAN, ok \in BOOLEAN :
          SendYolo(wait, closed, ok) /\ UNCHANGED <<reads, replies>>
    \/ \E wait \in Waits("BLIP"), closed \in BOOLEAN, ok \in BOOLEAN :
          SendBlip(wait, closed, ok) /\ UNCHANGED <<reads, replies>>
    \/ \E pause \in {0, 1} : LoopSleep(pause)

CameraClientSpec == Init /\ [][CameraClientNext]_vars

\* ----------------------------------------------------------- vocabulary
DispIds == 1..Len(disp)
\* No registered worker is without its processing loop: no start() raised.
AllStarted == \A w \in Experts : startup[w] # "failed"
\* GET /api/cameras: list(self.camera_data.keys()). An entry is created by the
\* first result update_camera_data stores for the camera; nothing deletes one.
get_cameras == {cam \in DOMAIN camera_data : camera_data[cam] # {}}
\* camera_data[cam]["connected"]: written True when the entry is created and on
\* every later update, written by nothing else.
connected(cam) == cam \in get_cameras
\* The combined responses written to the websocket for a dispatch.
Combined(D) == {i \in 1..Len(D.sent) : D.sent[i].type = "combined"}
\* The job that dispatch d submitted to worker w is queued or being processed.
JobPending(d, w) == d \in Range(job_queue[w]) \/ cur[w] = d
\* Worker w called the callback of its job of dispatch d with a result.
Reported(D, w) == w \in DOMAIN D.outcome /\ D.outcome[w] = "ok"
\* add_job returned False for dispatch d on worker w.
Rejected(D, w) == w \in DOMAIN D.ret /\ ~D.ret[w]
Accepted(D, w) == w \in DOMAIN D.ret /\ D.ret[w]
\* This step calls add_job on worker w for dispatch d.
AddJobCalled(d, w) ==
    /\ d \in 1..Len(disp')
    /\ w \in DOMAIN disp'[d].ret
    /\ (d > Len(disp) \/ w \notin DOMAIN disp[d].ret)

\* ------------------------------------------------------------------- C1
\* C1: for every fan-out dispatch at most one combined result is written to the
\* websocket, whatever the order of the worker callbacks; once it is sent no
\* later worker result adds a second one.
C1_CombinedAtMostOnce ==
    \A d \in DispIds : Cardinality(Combined(disp[d])) <= 1

\* A fan-out dispatch to two workers whose callbacks both ran and whose combined
\* result was sent.
C1_Witness ==
    \E d \in DispIds :
        /\ disp[d].mode = "fan"
        /\ Len(disp[d].enabled_workers) = 2
        /\ \A w \in Experts : Reported(disp[d], w)
        /\ Cardinality(Combined(disp[d])) = 1

\* ------------------------------------------------------------------- C2
\* C2: a worker's job queue never holds more than its capacity, and an add_job
\* call on a full queue returns False in the very step it is made: the caller
\* goes on (the routing advances past that worker) without waiting for room.
C2_QueueWithinCapacity ==
    /\ [](\A w \in Experts : Len(job_queue[w]) <= MaxQueue)
    /\ [][\A d \in 1..Len(disp'), w \in Experts :
            (AddJobCalled(d, w) /\ QueueFull(job_queue[w]))
                => /\ disp'[d].ret[w] = FALSE
                   /\ rt'.d # d \/ rt'.todo = Tail(rt.todo)]_vars

\* A full queue on which an add_job call was refused.
C2_Witness ==
    \E d \in DispIds, w \in Experts :
        alive[w] /\ Rejected(disp[d], w) /\ Len(job_queue[w]) = MaxQueue

\* ------------------------------------------------------------------- C4
\* C4: a combined result is sent only when every expert that was enabled for
\* the dispatch has reported, it holds exactly one entry per such expert, each
\* the result that expert computed for this frame; and when all of them have
\* reported (the connection still open) the combined result has been sent.
C4_AllReportedExactlyN ==
    \A d \in DispIds :
        LET D == disp[d]
            en == Range(D.enabled_workers)
        IN  D.mode = "fan" =>
              /\ \A i \in Combined(D) :
                    /\ DOMAIN D.sent[i].results = en
                    /\ \A w \in en : /\ Reported(D, w)
                                     /\ D.sent[i].results[w] = process_frame(d, w)
              /\ (en # {} /\ conn[D.conn] = "open" /\ \A w \in en : Reported(D, w))
                    => Cardinality(Combined(D)) = 1

\* Both experts reported for the second frame of a run, and its combined
\* result carries their two entries.
C4_Witness ==
    \E d \in DispIds :
        /\ d > 1
        /\ disp[d].mode = "fan"
        /\ \E i \in Combined(disp[d]) :
              /\ DOMAIN disp[d].sent[i].results = Experts
              /\ disp[d].sent[i].results["blip"] = process_frame(d, "blip")
              /\ disp[d].sent[i].results["yolo"] = process_frame(d, "yolo")

\* ------------------------------------------------------------------- C3
\* C3: a fan-out dispatch with at least one enabled expert completes even when
\* an expert never reports: stated for the case where the missing experts'
\* jobs were refused by a full queue, no job raised, and nothing of the
\* dispatch is left to run, the combined result of the experts that did report
\* has been sent.
C3_CompletesWithoutMissingExpert ==
    \A d \in DispIds :
        LET D == disp[d]
            en == Range(D.enabled_workers)
        IN  ( /\ AllStarted
              /\ D.mode = "fan"
              /\ rt.d # d
              /\ en # {}
              /\ conn[D.conn] = "open"
              /\ \A w \in en : Rejected(D, w) \/ Reported(D, w) )
            => \E i \in Combined(D) :
                  DOMAIN D.sent[i].results = {w \in en : Reported(D, w)}

\* ------------------------------------------------------------------- C5
\* C5: when blip's queue is full and a frame is dispatched to yolo and blip,
\* blip's job is refused, yolo's is accepted and processed, and yolo's result
\* for that frame is delivered to the client inside the combined response.
C5_YoloDeliveredWhenBlipFull ==
    \A d \in DispIds :
        LET D == disp[d]
        IN  ( /\ AllStarted
              /\ D.mode = "fan"
              /\ Rejected(D, "blip")
              /\ Accepted(D, "yolo")
              /\ Reported(D, "yolo")
              /\ conn[D.conn] = "open" )
            => \E i \in 1..Len(D.sent) : "yolo" \in DOMAIN D.sent[i].results

\* ------------------------------------------------------------------- C6
\* C6: while an expert's toggle is disabled no dispatch submits a job to its
\* worker: a fan-out dispatch that reads the toggle leaves the expert out of
\* enabled_workers, and a single-expert request that arrives while the expert
\* is disabled makes no add_job call on it.
C6_NoSubmitWhileDisabled ==
    [][\A d \in 1..Len(disp'), w \in Experts :
          /\ (AllStarted /\ d > Len(disp) /\ AddJobCalled(d, w)) => AI_MODELS[w]
          /\ ( /\ d <= Len(disp)
               /\ w \in Range(disp'[d].enabled_workers)
               /\ w \notin Range(disp[d].enabled_workers) ) => AI_MODELS[w]]_vars

\* ------------------------------------------------------------------- C7
\* C7: the result of a job that was queued or running when its expert was
\* disabled is ignored. A fan-out job is submitted only after its expert's
\* toggle was read as enabled, so when its worker ends it while the toggle is
\* off, the expert was disabled with the job in flight: no response written to
\* the client for that dispatch, in that step or before, contains the result.
C7_DisabledInFlightResultIgnored ==
    [][\A w \in Experts :
          ( /\ cur[w] # NoJob
            /\ disp[cur[w]].mode = "fan"
            /\ ~AI_MODELS[w]
            /\ cur'[w] = NoJob )
          => \A i \in 1..Len(disp'[cur[w]].sent) :
                w \notin DOMAIN disp'[cur[w]].sent[i].results]_vars

\* ------------------------------------------------------------------- C8
\* C8: when process_frame raises for a job, the job's callback is called with
\* a result (the error): the worker has an entry in the dispatch's results
\* (fan-out), or a result of the worker was written to the connection, if
\* still open (single-expert).
C8_RaiseReportedAsError ==
    \A d \in DispIds, w \in Experts :
        LET D == disp[d]
        IN  (w \in DOMAIN D.outcome /\ D.outcome[w] = "raise")
            => IF D.mode = "fan"
               THEN w \in DOMAIN D.results
               ELSE conn[D.conn] = "open"
                       => \E i \in 1..Len(D.sent) : w \in DOMAIN D.sent[i].results

\* ------------------------------------------------------------------- C9
\* A job of worker w ended with process_frame or the callback raising.
Failed(w) ==
    \E d \in DispIds :
        w \in DOMAIN disp[d].outcome /\ disp[d].outcome[w] \in {"raise", "cbraise"}
Processed(d, w) == d \in DispIds /\ w \in DOMAIN disp[d].outcome

\* C9: a job whose inference or callback raises never ends the worker: the
\* processing loop of every registered worker stays alive, and after a failure
\* every job in the worker's queue is eventually dequeued and processed.
C9_WorkerSurvivesFailures ==
    /\ [](\A w \in Experts : startup[w] = "started" => alive[w])
    /\ \A w \in Experts, d \in 1..MaxDispatch :
          (Failed(w) /\ d \in Range(job_queue[w])) ~> Processed(d, w)

\* A worker whose job failed (inference or callback raised) has since
\* processed a later job and called its callback.
C9_Witness ==
    \E w \in Experts, d1 \in DispIds, d2 \in DispIds :
        /\ d1 < d2
        /\ w \in DOMAIN disp[d1].outcome
        /\ disp[d1].outcome[w] \in {"raise", "cbraise"}
        /\ Reported(disp[d2], w)

\* ------------------------------------------------------------------ C10
\* No job that add_job refused is queued, running or processed.
RejectedNeverRuns ==
    \A d \in DispIds, w \in Experts :
        Rejected(disp[d], w) => ~JobPending(d, w) /\ w \notin DOMAIN disp[d].outcome

\* C10: an add_job call on a full queue returns False and changes nothing else:
\* every queue keeps its contents and order (no older job is evicted), no
\* worker's current job changes, and the refused job is never queued or
\* processed later.
C10_RejectChangesNothing ==
    [][ /\ \A d \in 1..Len(disp'), w \in Experts :
              (AddJobCalled(d, w) /\ QueueFull(job_queue[w]))
                  => /\ job_queue' = job_queue
                     /\ cur' = cur
                     /\ disp'[d].ret[w] = FALSE
        /\ RejectedNeverRuns' ]_vars

\* A job was refused by a full queue, and the older job that filled the queue
\* has since been processed.
C10_Witness ==
    \E d \in DispIds, d0 \in DispIds, w \in Experts :
        /\ d0 < d
        /\ Rejected(disp[d], w)
        /\ Accepted(disp[d0], w)
        /\ Reported(disp[d0], w)

\* ------------------------------------------------------------------ C11
\* C11: a fan-out dispatch that finds no enabled expert (no worker registered,
\* or every toggle read as disabled: reading a disabled toggle adds no worker
\* to enabled_workers) has, as soon as its routing is over, written exactly one
\* reply, the empty result; it has called add_job on no worker, no job of it is
\* queued or running, and its pending set is empty.
C11_NoActiveExpertEmptyResult ==
    /\ [](\A d \in DispIds :
            LET D == disp[d]
            IN  (D.mode = "fan" /\ rt.d # d /\ D.enabled_workers = <<>>)
                => /\ Len(D.sent) = 1
                   /\ D.sent[1].type = "empty"
                   /\ D.sent[1].results = EmptyMap
                   /\ D.ret = EmptyMap
                   /\ D.pending = {}
                   /\ \A w \in Experts : ~JobPending(d, w))
    /\ [][\A d \in DispIds :
            (rt.d = d /\ rt.phase = "check" /\ ~AI_MODELS[Head(rt.todo)])
                => disp'[d].enabled_workers = disp[d].enabled_workers]_vars

\* Two workers are registered and running, both toggles were read as disabled,
\* and the dispatch was answered with the empty result.
C11_Witness ==
    \E d \in DispIds :
        /\ disp[d].mode = "fan"
        /\ rt.d # d
        /\ workers = Experts
        /\ \A w \in Experts : alive[w] /\ ~AI_MODELS[w]
        /\ disp[d].enabled_workers = <<>>
        /\ Len(disp[d].sent) = 1
        /\ disp[d].sent[1].type = "empty"

\* ------------------------------------------------------------------ C12
\* C12: no combined result is written while an expert of the aggregate is
\* outstanding, and once the connection is closed nothing more is written for
\* any of its dispatches; a worker that ends a fan-out job of a closed connection
\* (the late result) stores nothing for the dashboard, stays alive and is free
\* to take its next job.
C12_ClosedAggregateDropsLateResult ==
    /\ [](\A d \in DispIds :
            (disp[d].mode = "fan" /\ disp[d].pending # {}) => Combined(disp[d]) = {})
    /\ [][\A d \in DispIds :
            conn[disp[d].conn] = "closed"
            => /\ disp'[d].sent = disp[d].sent
               /\ \A w \in Experts :
                    (disp[d].mode = "fan" /\ cur[w] = d /\ cur'[w] # d)
                    => /\ camera_data' = camera_data
                       /\ latest_results' = latest_results
                       /\ alive'[w]
                       /\ cur'[w] = NoJob]_vars

\* The connection closed before the last of two experts reported a frame: both
\* have reported since, no combined result exists for it, and both workers went
\* on to process the next frame.
C12_Witness ==
    \E d \in DispIds, d2 \in DispIds :
        /\ d < d2
        /\ disp[d].mode = "fan"
        /\ conn[disp[d].conn] = "closed"
        /\ Len(disp[d].enabled_workers) = 2
        /\ \A w \in Experts : Reported(disp[d], w) /\ Reported(disp[d2], w)
        /\ disp[d].sent = <<>>

\* ------------------------------------------------------------------ C13
\* C13: once a camera's connection is closed the server holds no live session
\* for the camera: the camera is not listed by get_cameras and is not reported
\* as connected.
C13_ClosedCameraNotListed ==
    \A d \in DispIds :
        conn[disp[d].conn] = "closed"
        => disp[d].cam \notin get_cameras /\ ~connected(disp[d].cam)

\* ------------------------------------------------------------------ C14
\* A message that is no valid request: bytes that are no image, text that is
\* no JSON, JSON that is no object, an object without a known "type" that lacks
\* "expert" or a decodable "frame".
BadInput(m) ==
    \/ m.form = "bytes" /\ m.frame # "image"
    \/ m.form = "text" /\ m.json # "object"
    \/ m.json = "object" /\ m.type = "none" /\ (m.expert = "none" \/ m.frame # "image")

\* C14: every message that is no valid request is answered with a JSON error
\* on its connection and the handler goes on to read the next message; a frame
\* request for an expert without a worker is answered with one error.
C14_BadInputAnsweredAndReadOn ==
    /\ \A c \in Conns : \A i \in 1..Len(wire[c]) :
          BadInput(wire[c][i].msg) => wire[c][i].reply = "error" /\ wire[c][i].goes_on
    /\ \A d \in DispIds :
          (disp[d].mode = "single" /\ disp[d].enabled_workers[1] \notin workers)
              => Len(disp[d].sent) = 1 /\ disp[d].sent[1].type = "error"

\* ------------------------------------------------------------------ C15
\* The expert a single-expert request names.
Named(D) == D.enabled_workers[1]

\* C15: a single-expert request that names an expert with no registered
\* worker is answered with exactly one reply, an error; add_job is called on
\* no worker for it and no job of it is queued or running; the step that
\* handles it changes no queue and leaves every connection as it was.
C15_UnknownExpertOneError ==
    /\ [](\A d \in DispIds :
            LET D == disp[d]
            IN  (D.mode = "single" /\ Named(D) \notin workers)
                => /\ Len(D.sent) = 1
                   /\ D.sent[1].type = "error"
                   /\ D.ret = EmptyMap
                   /\ \A w \in Experts : ~JobPending(d, w))
    /\ [][\A d \in 1..Len(disp') :
            ( /\ d > Len(disp)
              /\ disp'[d].mode = "single"
              /\ Named(disp'[d]) \notin workers )
            => /\ job_queue' = job_queue
               /\ conn' = conn
               /\ conn'[disp'[d].conn] = "open"]_vars

\* A request for blip was answered with an error while only yolo is registered,
\* and a later request on the same connection was served by yolo.
C15_Witness ==
    \E d \in DispIds, d2 \in DispIds :
        /\ d < d2
        /\ disp[d].mode = "single"
        /\ Named(disp[d]) = "blip"
        /\ workers = {"yolo"}
        /\ Len(disp[d].sent) = 1
        /\ disp[d].sent[1].type = "error"
        /\ disp[d2].conn = disp[d].conn
        /\ Reported(disp[d2], "yolo")

\* ------------------------------------------------------------------ C16
\* C16: jobs reach a worker in the order of their dispatches. When a worker's
\* loop dequeues a job, every job it accepted from an earlier dispatch has been
\* dequeued before and none of them is still waiting; when it invokes a job's
\* callback, the processing of every such earlier job has ended.
C16_FifoPerWorker ==
    [][\A w \in Experts, d \in DispIds :
          /\ (cur[w] # d /\ cur'[w] = d)
                => \A d0 \in 1..(d - 1) :
                      Accepted(disp[d0], w)
                          => /\ Count(disp[d0].taken, w) >= 1
                             /\ d0 \notin Range(job_queue'[w])
          /\ (Count(disp'[d].calls, w) > Count(disp[d].calls, w))
                => \A d0 \in 1..(d - 1) :
                      Accepted(disp[d0], w) => w \in DOMAIN disp[d0].outcome]_vars

\* A worker's queue held the jobs of two frames at once (the job of a third
\* frame was refused by the full queue) and the worker has since reported both.
C16_Witness ==
    \E w \in Experts, d1 \in DispIds, d2 \in DispIds, d3 \in DispIds :
        /\ d1 < d2 /\ d2 < d3
        /\ Accepted(disp[d1], w) /\ Accepted(disp[d2], w)
        /\ Rejected(disp[d3], w)
        /\ Reported(disp[d1], w) /\ Reported(disp[d2], w)

\* ------------------------------------------------------------------ C17
\* C17: a job is dequeued at most once and only by the worker that accepted
\* it: an accepted job is either still waiting in that worker's queue, once,
\* or was dequeued exactly once; a job that was not accepted is never dequeued;
\* a job's callback is invoked at most once, and only after the job was dequeued.
C17_ConsumedExactlyOnce ==
    \A d \in DispIds, w \in Experts :
        LET D == disp[d]
            waiting == Cardinality({i \in 1..Len(job_queue[w]) : job_queue[w][i] = d})
        IN  /\ waiting <= 1
            /\ Count(D.taken, w) <= 1
            /\ Count(D.taken, w) + waiting = (IF Accepted(D, w) THEN 1 ELSE 0)
            /\ cur[w] = d => Accepted(D, w) /\ Count(D.taken, w) = 1
            /\ Count(D.calls, w) <= Count(D.taken, w)

\* A single-expert job and both jobs of a fan-out dispatch were each dequeued
\* once, by the worker they were submitted to, and each callback ran once.
C17_Witness ==
    \E d \in DispIds, d2 \in DispIds :
        /\ disp[d].mode = "fan"
        /\ \A w \in Experts : Count(disp[d].taken, w) = 1 /\ Count(disp[d].calls, w) = 1
        /\ disp[d2].mode = "single"
        /\ Count(disp[d2].taken, Named(disp[d2])) = 1
        /\ Count(disp[d2].calls, Named(disp[d2])) = 1
        /\ \A w \in Experts \ {Named(disp[d2])} : Count(disp[d2].taken, w) = 0

\* ------------------------------------------------------------------ C18
\* C18: every entry of every response written for a dispatch is the result
\* that the entry's expert computed for the frame of that same dispatch.
C18_ResultsOfOwnFrame ==
    \A d \in DispIds :
        \A i \in 1..Len(disp[d].sent) :
            \A w \in DOMAIN disp[d].sent[i].results :
                disp[d].sent[i].results[w] = process_frame(d, w)

\* Two frames were fanned out to both experts and their jobs waited together
\* in blip's queue (a third frame was refused there); both combined results
\* have been sent since, each with its own two entries.
C18_Witness ==
    \E d1 \in DispIds, d2 \in DispIds :
        /\ d1 < d2
        /\ \A d \in {d1, d2} :
              /\ disp[d].mode = "fan"
              /\ \E i \in Combined(disp[d]) : DOMAIN disp[d].sent[i].results = Experts
        /\ \E d3 \in DispIds : d2 < d3 /\ Rejected(disp[d3], "blip")

\* ------------------------------------------------------------------ C19
\* C19: a worker whose model initialization failed at startup takes no part in
\* any dispatch: it is not in the worker registry, add_job is never called on
\* it and no aggregate waits for it; every worker whose startup succeeded is
\* registered and running.
C19_FailedWorkerNotRegistered ==
    /\ \A w \in Experts :
          startup[w] = "failed"
              => /\ w \notin workers
                 /\ \A d \in DispIds :
                       w \notin DOMAIN disp[d].ret /\ w \notin disp[d].pending
    /\ \A w \in Experts : startup[w] = "started" => w \in workers /\ alive[w]

\* ------------------------------------------------------------------ C20
\* C20: a SocketIO client receives a camera's stats update only while it is
\* subscribed to that camera: whenever an update of a camera newly reaches a
\* client, the client is in the camera's room.
C20_UpdatesOnlyToSubscribers ==
    [][\A s \in Sids, cam \in DashCameras :
          (<<s, cam>> \in delivered' /\ <<s, cam>> \notin delivered)
              => <<s, room(cam)>> \in rooms]_vars

\* ------------------------------------------------------------------ C21
\* A report that counts a job as queued until task_done is called for it.
get_stats_unfinished(w) ==
    [queue_size |-> Len(job_queue[w]) + (IF cur[w] = NoJob THEN 0 ELSE 1),
     total_frames |-> frame_count[w]]
\* BaseWorker.get_stats(): the numbers a worker reports (fps is derived from
\* total_frames and the clock).
get_stats(w) == [queue_size |-> Len(job_queue[w]), total_frames |-> frame_count[w]]

\* get_server_stats(): the numbers the server reports in a stats reply and in
\* every combined result (server_fps and uptime are derived from the clock).
get_server_stats ==
    [total_frames |-> srv_frame_count,
     connected_clients |-> Cardinality(connected_clients),
     workers |-> [w \in workers |-> get_stats(w)]]

\* Every number of get_server_stats, one after the other: the two of the
\* server, then queue_size and total_frames of each expert's worker (0 stands
\* for the numbers of an expert without a registered worker).
CounterIds == 1..(2 + 2 * Len(ExpertOrder))
CounterValue(i) ==
    LET w == ExpertOrder[(i - 1) \div 2]
        S == get_server_stats
    IN  IF i = 1 THEN S.total_frames
        ELSE IF i = 2 THEN S.connected_clients
        ELSE IF w \notin DOMAIN S.workers THEN 0
        ELSE IF i % 2 = 1 THEN S.workers[w].queue_size
        ELSE S.workers[w].total_frames

\* This step holds an add_job call that a full queue refuses.
RefusedNow ==
    \E d \in 1..Len(disp'), w \in Experts : AddJobCalled(d, w) /\ ~disp'[d].ret[w]

\* C21: a job refused by a full queue is dropped (never queued, never run), no
\* error is written to the client for its dispatch, and a dropped-frame
\* counter goes up by one: in every step in which a job is refused, one of the
\* numbers the server keeps is greater by one afterwards.
C21_DropCountedNoError ==
    /\ [](RejectedNeverRuns)
    /\ [](\A d \in DispIds :
            (\E w \in Experts : Rejected(disp[d], w))
                => \A i \in 1..Len(disp[d].sent) : disp[d].sent[i].type # "error")
    /\ [][(AllStarted /\ RefusedNow)
            => \E i \in CounterIds : CounterValue(i)' = CounterValue(i) + 1]_vars

\* ------------------------------------------------------------------ C22
\* C22: fan-out never holds the ingestion back. Whenever no routing call is
\* running, every open connection can have its next binary frame dispatched,
\* whatever results are outstanding; and the step that submits the last job of
\* a dispatch ends the routing call with every submitted expert still pending
\* and nothing written for the dispatch.
C22_FanOutNeverBlocksIngestion ==
    /\ [](\A c \in AllConns :
            (rt = NoRoute /\ conn[c] = "open" /\ Len(disp) < MaxDispatch)
                => ENABLED RouteBegin(c))
    /\ [][(rt.phase = "submit" /\ Len(rt.todo) = 1)
            => /\ rt' = NoRoute
               /\ disp'[rt.d].pending = Range(disp[rt.d].enabled_workers)
               /\ disp'[rt.d].sent = <<>>]_vars

\* Frame k of the first connection is fanned out to both experts and neither
\* has reported; frame k+1 of that connection and a frame of the second
\* connection have been dispatched all the same, and their jobs accepted.
C22_Witness ==
    /\ Len(disp) = 3
    /\ rt = NoRoute
    /\ \A d \in DispIds : disp[d].mode = "fan"
    /\ disp[1].conn = "ws1" /\ disp[2].conn = "ws1" /\ disp[3].conn = "ws2"
    /\ disp[1].pending = Experts /\ disp[1].sent = <<>>
    /\ \A w \in Experts : alive[w] /\ cur[w] = 1
    /\ Accepted(disp[2], "yolo") /\ Accepted(disp[3], "yolo")

\* ------------------------------------------------------------------ C23
\* The request of single-expert dispatch d was accepted by its worker and the
\* worker has not finished it: no result was delivered and nothing failed.
\* (The server sets no timer for a request, so none ever times out.)
AwaitingResult(d) ==
    /\ disp[d].mode = "single"
    /\ Accepted(disp[d], Named(disp[d]))
    /\ Named(disp[d]) \notin DOMAIN disp[d].outcome

\* C23: the handler of a connection does not start on the next message while a
\* single-expert request of that connection awaits its result: no step creates
\* a dispatch for a connection that has such a request outstanding.
C23_SingleRequestSuspendsHandler ==
    [][\A d \in 1..Len(disp') :
          (AllStarted /\ d > Len(disp))
              => \A d0 \in DispIds :
                    disp[d0].conn = disp'[d].conn => ~AwaitingResult(d0)]_vars

\* ------------------------------------------------------------------ C24
\* C24: for a single-expert request nothing but the raw result of the named
\* expert for that frame is written, at most once, and only to the connection
\* the request came on; when the inference returns while that connection is
\* open, the same step writes the result, whatever the other workers hold.
C24_SingleResultOnceOnOwnConnection ==
    /\ [](\A d \in DispIds :
            LET D == disp[d]
            IN  (D.mode = "single" /\ Named(D) \in workers)
                => /\ Len(D.sent) <= 1
                   /\ \A i \in 1..Len(D.sent) :
                         /\ D.sent[i].type = "result"
                         /\ D.sent[i].to = D.conn
                         /\ D.sent[i].results = (Named(D) :> process_frame(d, Named(D)))
                   /\ Reported(D, Named(D)) => Len(D.sent) = 1
                   /\ Len(D.sent) = 1 => Accepted(D, Named(D)))
    /\ [][\A w \in Experts :
            ( /\ cur[w] # NoJob
              /\ disp[cur[w]].mode = "single"
              /\ frame_count'[w] = frame_count[w] + 1
              /\ conn[disp[cur[w]].conn] = "open" )
            => Len(disp'[cur[w]].sent) = 1]_vars

\* yolo's result for a request of the second connection has been written to
\* that connection while the first connection is open and its request for
\* blip is still being processed.
C24_Witness ==
    \E d \in DispIds, d2 \in DispIds :
        /\ disp[d].mode = "single" /\ disp[d].conn = "ws2" /\ Named(disp[d]) = "yolo"
        /\ Len(disp[d].sent) = 1 /\ disp[d].sent[1].to = "ws2"
        /\ disp[d2].mode = "single" /\ disp[d2].conn = "ws1" /\ Named(disp[d2]) = "blip"
        /\ cur["blip"] = d2
        /\ conn["ws1"] = "open" /\ conn["ws2"] = "open"

\* ------------------------------------------------------------------ C25
\* C25: the toggle registry is written by toggle_model alone. Every step that
\* changes a toggle is a toggle request for a known model and changes nothing
\* else; the registry keeps its keys; and a toggle request for an unknown name
\* returns 404 and leaves the registry as it is.
C25_TogglesOnlyByToggleRequest ==
    /\ [][AI_MODELS' # AI_MODELS
            => \E m \in Experts, body \in ToggleBodies : toggle_model(m, body)]_vars
    /\ [](DOMAIN AI_MODELS = Experts)
    /\ [](\A m \in ModelNames \ Experts, body \in ToggleBodies :
            toggle_status(m, body) = 404 /\ toggled(m, body) = AI_MODELS)

\* yolo was switched off and is still off after a frame was dispatched, a
\* worker delivered a result, a ping and a stats request were answered and the
\* connection was closed.
C25_Witness ==
    /\ ~AI_MODELS["yolo"] /\ AI_MODELS["blip"]
    /\ conn["ws1"] = "closed"
    /\ \E d \in DispIds, w \in Experts : Reported(disp[d], w)
    /\ \E i \in 1..Len(wire["ws1"]) : wire["ws1"][i].reply = "pong"
    /\ \E i \in 1..Len(wire["ws1"]) : wire["ws1"][i].reply = "stats"

\* ------------------------------------------------------------------ C26
\* The inference of worker w's job of dispatch d returned: the callback ran
\* ("ok") or raised ("cbraise"), in both cases after frame_count was counted.
InferenceReturned(D, w) == w \in DOMAIN D.outcome /\ D.outcome[w] \in {"ok", "cbraise"}

\* C26: a worker's processed-frame count never goes down; it changes only in a
\* step in which the worker's own loop ends a job whose inference returned, by
\* exactly one, and every such step changes it; a refused submission changes no
\* count; the reported total is the number of the worker's jobs whose inference
\* returned, and the reported queue depth is the number of jobs the worker
\* accepted and has not yet dequeued.
C26_WorkerStatsOwnLoopOnly ==
    /\ [][\A w \in Experts :
            LET ends == cur[w] # NoJob /\ cur'[w] = NoJob
                       /\ InferenceReturned(disp'[cur[w]], w)
            IN  /\ frame_count'[w] >= frame_count[w]
                /\ frame_count'[w] # frame_count[w] => ends
                /\ ends => /\ frame_count'[w] = frame_count[w] + 1
                           /\ \A x \in Experts \ {w} : frame_count'[x] = frame_count[x]
                /\ RefusedNow => frame_count' = frame_count]_vars
    /\ [](\A w \in Experts :
            /\ get_stats(w).total_frames =
                  Cardinality({d \in DispIds : InferenceReturned(disp[d], w)})
            /\ get_stats(w).queue_size =
                  Cardinality({d \in DispIds :
                                  Accepted(disp[d], w) /\ Count(disp[d].taken, w) = 0}))

\* yolo has processed two jobs and is at work on a third while blip, which had
\* a submission refused, has processed none and reports two queued jobs.
C26_Witness ==
    /\ get_stats("yolo").total_frames = 2
    /\ cur["yolo"] # NoJob
    /\ get_stats("blip").total_frames = 0
    /\ get_stats("blip").queue_size = 2
    /\ alive["blip"]
    /\ \E d \in DispIds : Rejected(disp[d], "blip")

\* ------------------------------------------------------------------ C30
\* C30: the step that handles a ping or a stats message writes one reply, a
\* pong for a ping and the stats for a stats message, on the connection the
\* message came on, and the handler reads on; the step creates no dispatch and
\* changes no job queue, no worker, no toggle, no frame counter and no
\* connection.
C30_PingStatsAnsweredNoEffect ==
    [][\A c \in AllConns :
          wire'[c] # wire[c]
          => LET e == wire'[c][Len(wire'[c])]
             IN  /\ wire'[c] = Append(wire[c], e)
                 /\ \A x \in AllConns \ {c} : wire'[x] = wire[x]
                 /\ e.msg.type = "ping" => e.reply = "pong" /\ e.goes_on
                 /\ e.msg.type = "stats" => e.reply = "stats" /\ e.goes_on
                 /\ e.msg.type \in {"ping", "stats"}
                       => /\ conn[c] = "open" /\ conn' = conn
                          /\ disp' = disp /\ rt' = rt
                          /\ job_queue' = job_queue /\ cur' = cur
                          /\ AI_MODELS' = AI_MODELS
                          /\ srv_frame_count' = srv_frame_count
                          /\ frame_count' = frame_count]_vars

\* A ping and a stats request were answered while a job was waiting in a
\* worker's queue, a toggle was off and a frame had been counted.
C30_Witness ==
    \E c \in Conns :
        /\ Len(wire[c]) = 2
        /\ wire[c][1].msg.type = "ping" /\ wire[c][1].reply = "pong"
        /\ wire[c][2].msg.type = "stats" /\ wire[c][2].reply = "stats"
        /\ \E w \in Experts : job_queue[w] # <<>> /\ alive[w]
        /\ \E w \in Experts : ~AI_MODELS[w]
        /\ srv_frame_count = 1
        /\ conn[c] = "open"

\* ------------------------------------------------------------------ C27
\* C27: a camera of the stream server whose last stored frame is older than
\* the inactivity timeout is reported by get_camera_status as inactive with
\* fps 0, still listed and with that frame kept; the step that marks a camera
\* inactive changes no frame; and a step that stores a frame for a camera
\* leaves it active, updated at the current time.
C27_IdleCameraInactiveThenActive ==
    /\ [](\A cam \in DOMAIN camera_frames :
            now - camera_frames[cam].at > InactivityTimeout
                => /\ cam \in DOMAIN status_report
                   /\ status_report[cam].status = "inactive"
                   /\ status_report[cam].fps = 0
                   /\ status_report[cam].last_update = camera_frames[cam].at)
    /\ [][\A cam \in StreamCameras :
            /\ ( /\ cam \in DOMAIN camera_status /\ cam \in DOMAIN camera_status'
                 /\ camera_status[cam].status = "active"
                 /\ camera_status'[cam].status = "inactive" )
               => /\ now - camera_frames[cam].at > InactivityTimeout
                  /\ camera_frames' = camera_frames
                  /\ frame_timestamps' = frame_timestamps
            /\ frames_stored'[cam] # frames_stored[cam]
               => /\ camera_status'[cam].status = "active"
                  /\ camera_status'[cam].last_update = now
                  /\ camera_frames'[cam].at = now]_vars

\* One camera sits marked inactive with fps 0 and its frame of second 0, while
\* the other, idle just as long, got its next frame in the last second and is
\* active with the rate of its two frames.
C27_Witness ==
    /\ now = MaxTime
    /\ "CAMERA_0" \in DOMAIN camera_status
    /\ camera_status["CAMERA_0"].status = "inactive"
    /\ camera_status["CAMERA_0"].fps = 0
    /\ camera_frames["CAMERA_0"].at = 0
    /\ "CAMERA_1" \in DOMAIN camera_status
    /\ camera_status["CAMERA_1"].status = "active"
    /\ frame_timestamps["CAMERA_1"] = <<0, MaxTime>>
    /\ camera_status["CAMERA_1"].fps = round1(1, MaxTime)

\* ------------------------------------------------------------------ C28
\* The entry of camera id cam in a table, or "absent".
Entry(t, cam) == IF cam \in DOMAIN t THEN <<t[cam]>> ELSE <<>>

\* C28: when a client of the stream server disconnects, every camera whose
\* last stored frame came from it is gone from the frame, status, fps,
\* timestamp and ownership tables, and the entries of every other camera are
\* as they were; a frame stored for a camera id that has no entry makes the
\* entry of a camera never seen: one timestamp, no computed rate, fps 0,
\* active, owned by the sender.
C28_DisconnectRemovesOwnCameras ==
    /\ [][\A s \in StreamSids :
            (s \in stream_sids /\ s \notin stream_sids')
            => \A cam \in StreamCameras :
                  IF cam \in DOMAIN camera_frames /\ camera_frames[cam].src = s
                  THEN /\ cam \notin DOMAIN camera_frames'
                       /\ cam \notin DOMAIN camera_status'
                       /\ cam \notin DOMAIN camera_fps'
                       /\ cam \notin DOMAIN frame_timestamps'
                       /\ cam \notin DOMAIN client_cameras'
                  ELSE /\ Entry(camera_frames', cam) = Entry(camera_frames, cam)
                       /\ Entry(camera_status', cam) = Entry(camera_status, cam)
                       /\ Entry(camera_fps', cam) = Entry(camera_fps, cam)
                       /\ Entry(frame_timestamps', cam) = Entry(frame_timestamps, cam)
                       /\ Entry(client_cameras', cam) = Entry(client_cameras, cam)]_vars
    /\ [][\A cam \in StreamCameras :
            (cam \notin DOMAIN camera_frames /\ cam \in DOMAIN camera_frames')
            => /\ frame_timestamps'[cam] = <<now>>
               /\ cam \notin DOMAIN camera_fps'
               /\ camera_status'[cam] =
                     [last_update |-> now, status |-> "active", fps |-> 0,
                      client_id |-> camera_frames'[cam].src]
               /\ client_cameras'[cam] = camera_frames'[cam].src]_vars

\* CAMERA_0 was fed by client a and removed when a disconnected; its second
\* frame, from client b, made a fresh entry with one timestamp. CAMERA_1, fed
\* by b alone, has its two timestamps and its rate.
C28_Witness ==
    /\ frames_stored["CAMERA_0"] = <<"a", "b">>
    /\ frames_stored["CAMERA_1"] = <<"b", "b">>
    /\ "CAMERA_0" \in DOMAIN camera_frames
    /\ Len(frame_timestamps["CAMERA_0"]) = 1
    /\ client_cameras["CAMERA_0"] = "b"
    /\ "a" \notin stream_sids
    /\ "CAMERA_1" \in DOMAIN camera_fps
    /\ Len(frame_timestamps["CAMERA_1"]) = 2
    /\ client_cameras["CAMERA_1"] = "b"

\* C29: for each camera of the client, two consecutive frames sent to the
\* same expert are at least that expert's interval apart (0.2 s for YOLO,
\* 3 s for BLIP), whatever the number of cameras and whatever the response
\* delays and timeouts. The client compares and stores current_time, read
\* at the top of the loop, while the frame leaves after the awaits of the
\* sends before it: the statement is violated.
C29_ClientKeepsSubmissionInterval ==
    [][\A cam \in ClientCameras, e \in ClientExperts :
          (last_sent[cam][e] # Never /\ last_sent'[cam][e] # last_sent[cam][e])
              => last_sent'[cam][e] - last_sent[cam][e] >= interval(e)]_vars

\* The experts a fan-out dispatch waits for or has heard from: pending_workers
\* and the keys of results, which collect_result moves a worker between.
Awaited(D) == D.pending \cup DOMAIN D.results
\* Whether route_frame_to_workers has left its first loop for dispatch d.
PastCheck(d) == ~(rt.d = d /\ rt.phase = "check")

\* C32: in a fan-out dispatch the experts the aggregate waits for are exactly
\* the experts add_job was attempted on, also when toggles change during the
\* dispatch: while the submit loop runs add_job has been called only on
\* awaited experts, and once it has ended on every one of them.
C32_AwaitedAreSubmitted ==
    \A d \in DispIds :
        (disp[d].mode = "fan" /\ PastCheck(d)) =>
            /\ Awaited(disp[d]) = Range(disp[d].enabled_workers)
            /\ DOMAIN disp[d].ret \subseteq Awaited(disp[d])
            /\ rt.d # d => DOMAIN disp[d].ret = Awaited(disp[d])

\* A dispatch that found yolo enabled, with yolo switched off before the first
\* loop ended: add_job has been called on yolo, and blip is still to come.
C32_Witness ==
    \E d \in DispIds :
        /\ disp[d].mode = "fan"
        /\ rt.d = d /\ rt.phase = "submit" /\ rt.todo = <<"blip">>
        /\ ~AI_MODELS["yolo"]
        /\ DOMAIN disp[d].ret = {"yolo"}
        /\ disp[d].pending = {"yolo", "blip"}

\* C33: a result of an expert that is disabled when the result is stored
\* never enters the dashboard state: no step adds an expert to camera_data or
\* to latest_results of a camera while that expert's toggle is off.
\* send_combined_result assigns the whole results dict to latest_results
\* before update_camera_data is asked: the statement is violated.
C33_DisabledResultNotStored ==
    [][\A cam \in DashCameras, w \in Experts :
          (\/ w \in camera_data'[cam] \ camera_data[cam]
           \/ w \in latest_results'[cam] \ latest_results[cam])
              => AI_MODELS'[w]]_vars

\* C34: a worker handles one job at a time and takes its next job only when
\* the callback of the job before, with its send to the client, has returned:
\* while a delivery of worker w is pending, w still holds that job and cannot
\* take another, whatever waits in its queue; a job a worker holds is never
\* replaced by another; and every other worker whose loop stands at get() with
\* a job queued can take it, and one holding a job can go on with it.
C34_OneJobUntilCallbackReturns ==
    /\ [](\A w \in Experts : delivering[w] =>
            /\ cur[w] # NoJob
            /\ ~ENABLED WorkerGet(w)
            /\ \A v \in Experts \ {w} :
                  /\ (rt = NoRoute /\ alive[v] /\ cur[v] = NoJob /\ job_queue[v] # <<>>)
                        => ENABLED WorkerGet(v)
                  /\ (rt = NoRoute /\ alive[v] /\ cur[v] # NoJob /\ ~delivering[v])
                        => ENABLED SendSuspends(v))
    /\ [][\A w \in Experts : cur[w] # NoJob => cur'[w] \in {cur[w], NoJob}]_vars

\* yolo's delivery to the first client is pending while a job of the other
\* client's camera waits in yolo's queue, and blip's loop stands at get()
\* with a job queued.
C34_Witness ==
    /\ rt = NoRoute
    /\ delivering["yolo"]
    /\ disp[cur["yolo"]].conn = "ws1" /\ disp[cur["yolo"]].cam = "0"
    /\ \E i \in 1..Len(job_queue["yolo"]) :
          /\ disp[job_queue["yolo"][i]].conn = "ws2"
          /\ disp[job_queue["yolo"][i]].cam = "1"
    /\ alive["blip"] /\ cur["blip"] = NoJob
    /\ job_queue["blip"] # <<>>

\* Per worker: the jobs add_job accepted, the task_done calls and the
\* dequeues of its loop, over all dispatches.
AcceptedJobs(w) == Cardinality({d \in DispIds : Accepted(disp[d], w)})
TaskDoneCalls(w) ==
    LET S[n \in 0..Len(disp)] ==
            IF n = 0 THEN 0 ELSE Count(disp[n].done, w) + S[n - 1]
    IN  S[Len(disp)]
Dequeued(w) ==
    LET S[n \in 0..Len(disp)] ==
            IF n = 0 THEN 0 ELSE Count(disp[n].taken, w) + S[n - 1]
    IN  S[Len(disp)]
InProgress(w) == IF cur[w] # NoJob THEN 1 ELSE 0

\* C35: on every path through process_loop (the callback returned,
\* process_frame raised, the callback raised) a dequeued job gets exactly one
\* task_done: a job that is over has one call and one that is queued or in
\* progress none, so for each worker the accepted jobs are the finished ones
\* plus the queued ones plus at most one in progress, and task_done is never
\* called more often than jobs were dequeued.
C35_TaskDoneOncePerJob ==
    \A w \in Experts :
        /\ \A d \in DispIds :
              Count(disp[d].done, w) =
                  IF w \in DOMAIN disp[d].outcome /\ cur[w] # d THEN 1 ELSE 0
        /\ AcceptedJobs(w) = TaskDoneCalls(w) + Len(job_queue[w]) + InProgress(w)
        /\ TaskDoneCalls(w) <= Dequeued(w)
        /\ TaskDoneCalls(w) + InProgress(w) = Dequeued(w)

\* yolo has ended one job on each path, and each of the three got its
\* task_done.
C35_Witness ==
    /\ {disp[d].outcome["yolo"] : d \in {x \in DispIds : "yolo" \in DOMAIN disp[x].outcome}}
          = {"ok", "raise", "cbraise"}
    /\ TaskDoneCalls("yolo") = 3
    /\ cur["yolo"] = NoJob

\* C36: connected_clients is exactly the set of connections whose handler is
\* running: a connection is added when its handler starts and removed when
\* the handler ends, whether the connection closed or the handler left its
\* loop with an exception; the connected_clients number of get_server_stats
\* counts the running handlers and no connection that is closed.
C36_ConnectedClientsAreRunningHandlers ==
    /\ connected_clients = {c \in AllConns : conn[c] = "open"}
    /\ get_server_stats.connected_clients
          = Cardinality({c \in AllConns : conn[c] = "open"})

\* The handler of the first connection has ended with an exception on a
\* message it had read, after answering one; the second connection's handler
\* runs and is the one client reported.
C36_Witness ==
    /\ conn["ws1"] = "closed"
    /\ Len(wire["ws1"]) = 2 /\ wire["ws1"][1].goes_on /\ ~wire["ws1"][2].goes_on
    /\ conn["ws2"] = "open"
    /\ get_server_stats.connected_clients = 1

\* ------------------------------------------- the camera client's responses
\* Whether the loop stands at a send for camera cam that is due.
SendDue(cam) ==
    /\ ClientCameraOrder[client_pc.cam] = cam
    /\ \/ client_pc.at = "yolo" /\ current_time - last_yolo_time[cam] >= yolo_interval
       \/ client_pc.at = "blip" /\ current_time - last_blip_time[cam] >= blip_interval

\* The request send_frame_to_expert sends to expert e now: the expert and the
\* frame of this iteration.
Request(e) == [expert |-> e, frame |-> client_now]

\* `response = await asyncio.wait_for(websocket.recv(), timeout)` in the call
\* for camera cam and expert e that takes `wait`: recv() returns the next
\* message on the camera's connection, the server's result for this request or
\* for an earlier one whose response was not read; the call takes that message
\* for the answer. At the timeout nothing is read and the request stays open.
recv(cam, e, wait) ==
    LET open == unread[cam] \cup {Request(e)}
    IN  IF SendDue(cam) /\ client_connected[cam]
        THEN IF wait < recv_timeout(e)
             THEN \E got \in open :
                     /\ unread' = [unread EXCEPT ![cam] = open \ {got}]
                     /\ consumed' = [consumed EXCEPT ![cam] =
                                       <<[asked |-> Request(e), got |-> got]>>]
             ELSE /\ unread' = [unread EXCEPT ![cam] = open]
                  /\ UNCHANGED consumed
        ELSE UNCHANGED <<unread, consumed>>

\* The loop of a client whose connections stay up, with the responses it reads.
ResponseNext ==
    \/ \E ok \in BOOLEAN : connect_to_server(ok)
    \/ LoopTop
    \/ \E wait \in Waits("YOLO") :
          /\ SendYolo(wait, FALSE, TRUE)
          /\ recv(ClientCameraOrder[client_pc.cam], "YOLO", wait)
          /\ UNCHANGED reads
    \/ \E wait \in Waits("BLIP") :
          /\ SendBlip(wait, FALSE, TRUE)
          /\ recv(ClientCameraOrder[client_pc.cam], "BLIP", wait)
          /\ UNCHANGED reads
    \/ \E pause \in {0, 1} : LoopSleep(pause)

ResponseSpec == Init /\ [][ResponseNext]_vars

\* C31: the response send_frame_to_expert consumes for a request is the
\* response to that request: the message it reads for its request to expert E
\* with frame F is the server's result for E and F, never the late result of
\* an earlier request. Nothing in a message or in the client ties a response
\* to its request: the statement is violated.
C31_ResponseIsForItsRequest ==
    \A cam \in ClientCameras :
        consumed[cam] # <<>> => consumed[cam][1].got = consumed[cam][1].asked

\* Whether the camera has sent a frame, over a connection it has had.
HasSent(cam) == \E e \in ClientExperts : last_sent[cam][e] # Never

\* A turn of the loop with the server accepting connections (ok).
TurnWhileReachable ==
    /\ \/ \E wait \in Waits("YOLO"), closed \in BOOLEAN : SendYolo(wait, closed, TRUE)
       \/ \E wait \in Waits("BLIP"), closed \in BOOLEAN : SendBlip(wait, closed, TRUE)
    /\ UNCHANGED <<reads, replies>>

\* C37: a camera whose connection was closed reconnects once the server is
\* reachable again, a failed reconnect attempt does not leave it disconnected
\* for the rest of the run: whenever the loop comes to a due send for a camera
\* that has sent frames and is not connected, the step can connect it if the
\* server accepts.
\* send_frame_to_expert returns at once for such a camera and nothing else
\* calls connect_to_server: the statement is violated.
C37_DisconnectedCameraReconnects ==
    \A cam \in ClientCameras :
        (SendDue(cam) /\ ~client_connected[cam] /\ HasSent(cam))
            => ENABLED (TurnWhileReachable /\ client_connected'[cam])

\* --------------------------------------------- the camera client's reads
\* A client that gives a camera up at the tenth failed read in a row.
TooManyFailuresAtTen(n) == n >= MaxFailures
\* `if self.camera_status[camera_name]["failures"] > 10:`
TooManyFailures(n) == n > MaxFailures

\* The turn of the camera the loop is at: a camera that is not working is
\* passed over; otherwise cap.read() returns ret: a failed read is counted,
\* disables the camera when there were too many, and ends the turn; a
\* successful one resets the count and the sends follow.
CameraTurn(ret, wait) ==
    /\ client_pc.at = "yolo"
    /\ LET cam == ClientCameraOrder[client_pc.cam]
           skip == /\ client_pc' = after("blip", client_pc.cam)
                   /\ UNCHANGED <<last_sent, client_now, client_connected, current_time,
                                  last_yolo_time, last_blip_time, servers>>
       IN  IF ~working[cam]
           THEN skip /\ UNCHANGED reads
           ELSE IF ~ret
           THEN /\ skip
                /\ failures' = [failures EXCEPT ![cam] = @ + 1]
                /\ working' = [working EXCEPT ![cam] = ~TooManyFailures(failures[cam] + 1)]
           ELSE /\ failures' = [failures EXCEPT ![cam] = 0]
                /\ UNCHANGED working
                /\ SendYolo(wait, FALSE, TRUE)
    /\ UNCHANGED replies

\* The loop of a client whose cameras' reads fail or succeed; every response
\* comes at once and an iteration takes 0.2 s.
ReadNext ==
    \/ \E ok \in BOOLEAN : connect_to_server(ok)
    \/ LoopTop
    \/ \E ret \in BOOLEAN : CameraTurn(ret, 0)
    \/ SendBlip(0, FALSE, TRUE) /\ UNCHANGED <<reads, replies>>
    \/ LoopSleep(1)

ReadSpec == Init /\ [][ReadNext]_vars

C39_StatusScanSafeBesideThreads ==
    /\ scan.pc = "failed" => ~scan.removed
    /\ \A cam \in DOMAIN scan.status :
          scan.status[cam].frame_age <= InactivityTimeout
              => /\ scan.status[cam].status = "active"
                 /\ scan.status[cam].fps = scan.status[cam].camera_fps
====
